---- MODULE Spec2Model ----
(***************************************************************************)
(* A model of the boudoir ComfyUI front-end extensions:                    *)
(*   js/powerLoraWidget.js  the PowerLoRA row widget (rows, dropdown,      *)
(*                          trigger badges, lora_data persistence)         *)
(*   unnamed/part_000       the MultiLoRA trigger display                  *)
(*   unnamed/part_001       the prompt search widget and its dialog        *)
(*   js/ollamaEnhancer.js   the enhancer display and the folder loader     *)
(*                                                                         *)
(* JavaScript strings are modelled as sequences of one-character strings,  *)
(* JavaScript values as tagged records (see JsonValue below), and numbers  *)
(* as integers counting hundredths (1.0 is 100, 0.05 is 5).                *)
(***************************************************************************)
EXTENDS Integers, Sequences, FiniteSets, Bags, TLC

(***************************************************************************)
(* Text                                                                    *)
(***************************************************************************)
Digits == <<"0", "1", "2", "3", "4", "5", "6", "7", "8", "9">>

UpperChars == <<"A", "B", "C", "D", "E", "F", "G", "H", "I", "J", "K", "L", "M",
                "N", "O", "P", "Q", "R", "S", "T", "U", "V", "W", "X", "Y", "Z">>

LowerChars == <<"a", "b", "c", "d", "e", "f", "g", "h", "i", "j", "k", "l", "m",
                "n", "o", "p", "q", "r", "s", "t", "u", "v", "w", "x", "y", "z">>

IsDigit(c) == \E d \in 1..10 : Digits[d] = c

DigitVal(c) == (CHOOSE d \in 1..10 : Digits[d] = c) - 1

\* String.prototype.toLowerCase, one character
ToLowerChar(c) ==
    IF \E k \in 1..26 : UpperChars[k] = c
    THEN LowerChars[CHOOSE k \in 1..26 : UpperChars[k] = c]
    ELSE c

\* a variant that keeps the case, to test the sensitivity of the properties
ToLowerCaseKept(s) == s

\* String.prototype.toLowerCase
ToLowerCase(s) == [k \in 1..Len(s) |-> ToLowerChar(s[k])]

\* whether t occurs in s at position k (1-based)
OccursAt(s, t, k) ==
    /\ k + Len(t) - 1 <= Len(s)
    /\ \A j \in 1..Len(t) : s[k + j - 1] = t[j]

\* String.prototype.includes
Includes(s, t) == \E k \in 1..(Len(s) + 1) : OccursAt(s, t, k)

\* String.prototype.trim, for the white space the model's alphabet has
IsSpace(c) == c \in {" ", "\n", "\t", "\r"}

RECURSIVE TrimLeft(_)
TrimLeft(s) == IF s # <<>> /\ IsSpace(Head(s)) THEN TrimLeft(Tail(s)) ELSE s

RECURSIVE TrimRight(_)
TrimRight(s) ==
    IF s # <<>> /\ IsSpace(s[Len(s)]) THEN TrimRight(SubSeq(s, 1, Len(s) - 1)) ELSE s

\* a variant that trims nothing, to test the sensitivity of the properties
TrimKept(s) == s

Trim(s) == TrimRight(TrimLeft(s))

(***************************************************************************)
(* JavaScript values, as JSON.parse builds them and JSON.stringify reads   *)
(* them.  Every value is a record of the same shape; t is the type tag and *)
(* only the field the tag names is meaningful: b (boolean), n (number, in  *)
(* hundredths), s (string), a (array elements), m (object members, in      *)
(* insertion order, each [k |-> key, v |-> value]).                        *)
(***************************************************************************)
JsonValue(t, b, n, s, a, m) == [t |-> t, b |-> b, n |-> n, s |-> s, a |-> a, m |-> m]

JUndefined == JsonValue("undefined", FALSE, 0, <<>>, <<>>, <<>>)
JNull == JsonValue("null", FALSE, 0, <<>>, <<>>, <<>>)
JBool(b) == JsonValue("boolean", b, 0, <<>>, <<>>, <<>>)
JNum(n) == JsonValue("number", FALSE, n, <<>>, <<>>, <<>>)
\* NaN: the number JSON cannot represent
JNaN == JsonValue("nan", FALSE, 0, <<>>, <<>>, <<>>)
JStr(s) == JsonValue("string", FALSE, 0, s, <<>>, <<>>)
JArr(a) == JsonValue("array", FALSE, 0, <<>>, a, <<>>)
JObj(m) == JsonValue("object", FALSE, 0, <<>>, <<>>, m)

\* obj[key], undefined when obj has no such property (or is a primitive)
GetProp(obj, key) ==
    IF obj.t = "object" /\ \E k \in 1..Len(obj.m) : obj.m[k].k = key
    THEN obj.m[CHOOSE k \in 1..Len(obj.m) : obj.m[k].k = key].v
    ELSE JUndefined

\* the members of an object after obj[key] = v: an own property keeps its
\* place, a new one is added last
PutMember(m, key, v) ==
    IF \E k \in 1..Len(m) : m[k].k = key
    THEN [k \in 1..Len(m) |-> IF m[k].k = key THEN [k |-> key, v |-> v] ELSE m[k]]
    ELSE Append(m, [k |-> key, v |-> v])

SetProp(obj, key, v) == JObj(PutMember(obj.m, key, v))

\* ToBoolean
Truthy(v) ==
    CASE v.t = "boolean" -> v.b
      [] v.t = "number" -> v.n # 0
      [] v.t = "string" -> v.s # <<>>
      [] v.t \in {"array", "object"} -> TRUE
      [] OTHER -> FALSE

(***************************************************************************)
(* JSON.stringify                                                          *)
(***************************************************************************)
\* a variant that escapes nothing, to test the sensitivity of the properties
EscapeCharPlain(c) == <<c>>

\* QuoteJSONString, one character
EscapeChar(c) ==
    CASE c = "\"" -> <<"\\", "\"">>
      [] c = "\\" -> <<"\\", "\\">>
      [] c = "\n" -> <<"\\", "n">>
      [] c = "\t" -> <<"\\", "t">>
      [] c = "\r" -> <<"\\", "r">>
      [] OTHER -> <<c>>

RECURSIVE QuoteBody(_)
QuoteBody(s) == IF s = <<>> THEN <<>> ELSE EscapeChar(Head(s)) \o QuoteBody(Tail(s))

QuoteJSONString(s) == <<"\"">> \o QuoteBody(s) \o <<"\"">>

RECURSIVE NatText(_)
NatText(k) ==
    IF k < 10 THEN <<Digits[k + 1]>>
    ELSE NatText(k \div 10) \o <<Digits[(k % 10) + 1]>>

\* Number::toString of a finite number: no trailing zeros, no fraction for
\* an integer
NumText(n) ==
    LET a == IF n < 0 THEN -n ELSE n
        fr == a % 100
    IN  (IF n < 0 THEN <<"-">> ELSE <<>>)
        \o NatText(a \div 100)
        \o (IF fr = 0 THEN <<>>
            ELSE IF fr % 10 = 0 THEN <<".", Digits[(fr \div 10) + 1]>>
            ELSE <<".", Digits[(fr \div 10) + 1], Digits[(fr % 10) + 1]>>)

RECURSIVE JsonStringify(_)
RECURSIVE JoinElements(_)
RECURSIVE JoinMembers(_, _)

\* SerializeJSONProperty
JsonStringify(v) ==
    CASE v.t = "null" -> <<"n", "u", "l", "l">>
      [] v.t = "nan" -> <<"n", "u", "l", "l">>
      [] v.t = "boolean" ->
            IF v.b THEN <<"t", "r", "u", "e">> ELSE <<"f", "a", "l", "s", "e">>
      [] v.t = "number" -> NumText(v.n)
      [] v.t = "string" -> QuoteJSONString(v.s)
      [] v.t = "array" -> <<"[">> \o JoinElements(v.a) \o <<"]">>
      [] v.t = "object" -> <<"{">> \o JoinMembers(v.m, TRUE) \o <<"}">>
      [] OTHER -> <<>>

\* SerializeJSONArray: an undefined element is written as null
JoinElements(a) ==
    IF a = <<>> THEN <<>>
    ELSE (IF Head(a).t = "undefined" THEN <<"n", "u", "l", "l">>
          ELSE JsonStringify(Head(a)))
         \o (IF Len(a) > 1 THEN <<",">> ELSE <<>>)
         \o JoinElements(Tail(a))

\* SerializeJSONObject: a member whose value is undefined is left out
JoinMembers(m, first) ==
    IF m = <<>> THEN <<>>
    ELSE IF Head(m).v.t = "undefined" THEN JoinMembers(Tail(m), first)
    ELSE (IF first THEN <<>> ELSE <<",">>)
         \o QuoteJSONString(Head(m).k) \o <<":">> \o JsonStringify(Head(m).v)
         \o JoinMembers(Tail(m), FALSE)

(***************************************************************************)
(* JSON.parse: a recursive-descent parser over the text.  A parse result   *)
(* is [ok, v, i]: whether a value was read, the value, and the position    *)
(* after it.  Exponents, \u escapes and fraction digits after the second   *)
(* are outside the texts the model draws.                                  *)
(***************************************************************************)
ParseFail == [ok |-> FALSE, v |-> JUndefined, i |-> 0]

ParseOk(v, i) == [ok |-> TRUE, v |-> v, i |-> i]

RECURSIVE SkipWs(_, _)
SkipWs(s, i) == IF i <= Len(s) /\ IsSpace(s[i]) THEN SkipWs(s, i + 1) ELSE i

\* the digits of s from position i on: [n |-> their value, i |-> the position
\* after them, c |-> how many]
RECURSIVE ReadDigits(_, _, _, _)
ReadDigits(s, i, n, c) ==
    IF i <= Len(s) /\ IsDigit(s[i])
    THEN ReadDigits(s, i + 1, 10 * n + DigitVal(s[i]), c + 1)
    ELSE [n |-> n, i |-> i, c |-> c]

\* the fraction after a decimal point at position i - 1
ParseFraction(s, i) ==
    LET d1 == IF i <= Len(s) /\ IsDigit(s[i]) THEN DigitVal(s[i]) ELSE 0
        d2 == IF i + 1 <= Len(s) /\ IsDigit(s[i + 1]) THEN DigitVal(s[i + 1]) ELSE 0
        r == ReadDigits(s, i, 0, 0)
    IN  [n |-> 10 * d1 + d2, i |-> r.i, c |-> r.c]

\* a JSON number starting at position i: -? (0 | [1-9][0-9]*) (. [0-9]+)?
ParseNumber(s, i) ==
    LET neg == s[i] = "-"
        j == IF neg THEN i + 1 ELSE i
    IN  IF j > Len(s) \/ ~IsDigit(s[j]) THEN ParseFail
        ELSE LET ip == IF s[j] = "0" THEN [n |-> 0, i |-> j + 1, c |-> 1]
                       ELSE ReadDigits(s, j, 0, 0)
                 dot == ip.i <= Len(s) /\ s[ip.i] = "."
                 fr == IF dot THEN ParseFraction(s, ip.i + 1)
                       ELSE [n |-> 0, i |-> ip.i, c |-> 1]
                 mag == 100 * ip.n + fr.n
             IN  IF fr.c = 0 THEN ParseFail
                 ELSE ParseOk(JNum(IF neg THEN -mag ELSE mag), fr.i)

\* the rest of a JSON string whose opening quote is at position i - 1
RECURSIVE ParseString(_, _, _)
ParseString(s, i, acc) ==
    IF i > Len(s) THEN ParseFail
    ELSE IF s[i] = "\"" THEN ParseOk(JStr(acc), i + 1)
    ELSE IF s[i] \in {"\n", "\t", "\r"} THEN ParseFail
    ELSE IF s[i] = "\\"
         THEN IF i + 1 > Len(s) THEN ParseFail
              ELSE CASE s[i + 1] \in {"\"", "\\", "/"} ->
                            ParseString(s, i + 2, Append(acc, s[i + 1]))
                     [] s[i + 1] = "n" -> ParseString(s, i + 2, Append(acc, "\n"))
                     [] s[i + 1] = "t" -> ParseString(s, i + 2, Append(acc, "\t"))
                     [] s[i + 1] = "r" -> ParseString(s, i + 2, Append(acc, "\r"))
                     [] OTHER -> ParseFail
    ELSE ParseString(s, i + 1, Append(acc, s[i]))

RECURSIVE ParseValue(_, _)
RECURSIVE ParseElements(_, _, _)
RECURSIVE ParseMembers(_, _, _)

ParseValue(s, i0) ==
    LET i == SkipWs(s, i0)
    IN  IF i > Len(s) THEN ParseFail
        ELSE CASE s[i] = "[" ->
                    LET j == SkipWs(s, i + 1)
                    IN  IF j <= Len(s) /\ s[j] = "]" THEN ParseOk(JArr(<<>>), j + 1)
                        ELSE ParseElements(s, j, <<>>)
               [] s[i] = "{" ->
                    LET j == SkipWs(s, i + 1)
                    IN  IF j <= Len(s) /\ s[j] = "}" THEN ParseOk(JObj(<<>>), j + 1)
                        ELSE ParseMembers(s, j, <<>>)
               [] s[i] = "\"" -> ParseString(s, i + 1, <<>>)
               [] s[i] = "-" \/ IsDigit(s[i]) -> ParseNumber(s, i)
               [] OccursAt(s, <<"n", "u", "l", "l">>, i) -> ParseOk(JNull, i + 4)
               [] OccursAt(s, <<"t", "r", "u", "e">>, i) -> ParseOk(JBool(TRUE), i + 4)
               [] OccursAt(s, <<"f", "a", "l", "s", "e">>, i) -> ParseOk(JBool(FALSE), i + 5)
               [] OTHER -> ParseFail

\* the elements of an array after its "[" (or after a comma), up to its "]"
ParseElements(s, i, acc) ==
    LET r == ParseValue(s, i)
        j == SkipWs(s, r.i)
    IN  IF ~r.ok \/ j > Len(s) THEN ParseFail
        ELSE IF s[j] = "," THEN ParseElements(s, j + 1, Append(acc, r.v))
        ELSE IF s[j] = "]" THEN ParseOk(JArr(Append(acc, r.v)), j + 1)
        ELSE ParseFail

\* the members of an object after its "{" (or after a comma), up to its "}"
ParseMembers(s, i, acc) ==
    LET k0 == SkipWs(s, i)
        key == IF k0 <= Len(s) /\ s[k0] = "\"" THEN ParseString(s, k0 + 1, <<>>)
               ELSE ParseFail
        c == SkipWs(s, key.i)
        r == IF key.ok /\ c <= Len(s) /\ s[c] = ":" THEN ParseValue(s, c + 1)
             ELSE ParseFail
        j == SkipWs(s, r.i)
    IN  IF ~r.ok \/ j > Len(s) THEN ParseFail
        ELSE IF s[j] = "," THEN ParseMembers(s, j + 1, PutMember(acc, key.v.s, r.v))
        ELSE IF s[j] = "}" THEN ParseOk(JObj(PutMember(acc, key.v.s, r.v)), j + 1)
        ELSE ParseFail

\* JSON.parse(text): ok is FALSE where JSON.parse throws a SyntaxError
JsonParse(s) ==
    LET r == ParseValue(s, 1)
    IN  IF r.ok /\ SkipWs(s, r.i) = Len(s) + 1 THEN r ELSE ParseFail

\* parseFloat of the value of a number input, which the browser keeps either
\* empty or a valid floating-point number: NaN for the empty text
ParseFloat(s) ==
    LET r == IF s # <<>> /\ (s[1] = "-" \/ IsDigit(s[1])) THEN ParseNumber(s, 1)
             ELSE ParseFail
    IN  IF r.ok THEN r.v ELSE JNaN

(***************************************************************************)
(* Names and data of the model                                             *)
(***************************************************************************)
KLora == <<"l", "o", "r", "a">>
KStrength == <<"s", "t", "r", "e", "n", "g", "t", "h">>
KOn == <<"o", "n">>

NoneName == <<"N", "o", "n", "e">>

\* catalog items: a plain name, a file in a folder (a Windows path), and a
\* third one
LoraA == <<"a">>
LoraB == <<"B", "\\", "b">>
LoraC == <<"c">>

\* what the backend answers to /boudoir/lora-trigger for an item: the
\* trigger_word field of the response (has: whether there is one).  Item A
\* has a trigger word, padded with white space; item C has a blank one.
ServerTrigger(name) ==
    IF name = LoraA THEN [has |-> TRUE, word |-> <<" ", "t", "a">>]
    ELSE IF name = LoraC THEN [has |-> TRUE, word |-> <<" ">>]
    ELSE [has |-> FALSE, word |-> <<>>]

\* how a /boudoir/lora-trigger request can end
TriggerOutcomes == {"ok", "notok", "failed"}

\* how many rows the user adds, and how many lookups are in flight at once
MaxRows == 2
MaxInflight == 2

\* updateNodeSize
BaseHeight == 100
RowHeight == 36
MinHeight == 120

\* showLoraDropdown/renderItems: the cap on the listed candidates
DropdownCap == 50

PLNodes == {1, 2}

\* a variant that is switched off, to test the sensitivity of the properties
DefaultRowOff ==
    JObj(<<[k |-> KLora, v |-> JStr(<<>>)],
           [k |-> KStrength, v |-> JNum(100)],
           [k |-> KOn, v |-> JBool(FALSE)]>>)

\* { lora: "", strength: 1.0, on: true }
DefaultRow ==
    JObj(<<[k |-> KLora, v |-> JStr(<<>>)],
           [k |-> KStrength, v |-> JNum(100)],
           [k |-> KOn, v |-> JBool(TRUE)]>>)

RowOf(name, strength, on) ==
    JObj(<<[k |-> KLora, v |-> JStr(name)],
           [k |-> KStrength, v |-> JNum(strength)],
           [k |-> KOn, v |-> JBool(on)]>>)

RemoveAt(seq, k) == SubSeq(seq, 1, k - 1) \o SubSeq(seq, k + 1, Len(seq))

(***************************************************************************)
(* State                                                                   *)
(***************************************************************************)
VARIABLES
    \* js/powerLoraWidget.js
    plPhase,          \* per PowerLoRA node: its two deferred initialisations
    loraRows,         \* node.loraRows, a JavaScript value
    loraList,         \* node.loraList
    triggerDisplays,  \* node.triggerDisplays: row index -> text
    loraData,         \* the lora_data widget: [present, value]
    nodeHeight,       \* node.size[1]
    triggerEls,       \* the texts of the rendered rows' #trigger-<i> elements
    domOrder,         \* the nodes whose container is in the document, in order
    dropdowns,        \* the .power-lora-dropdown elements in the document
    plInflight,       \* /boudoir/lora-trigger requests in flight (a bag)
    plCache,          \* powerLoraWidget.js's triggerCache
    threw,            \* whether the last handler ended with an uncaught exception
    \* unnamed/part_000 (the MultiLoRA node)
    mlPhase,          \* its deferred callbacks
    mlValue,          \* the value of each lora_<k> combo widget
    mlDisplays,       \* node.triggerDisplays: slot -> text
    mlInflight,       \* /boudoir/lora-trigger requests in flight (a bag)
    mlCache,          \* part_000's triggerCache
    \* unnamed/part_001 (the prompt search node)
    srNode,           \* the search node's widgets
    dialogs,          \* the #boudoir-prompt-dialog overlays in the document
    srInflight,       \* /boudoir/prompt-search requests in flight (a bag)
    \* js/ollamaEnhancer.js (the folder loader node)
    flNode,           \* the folder node's widgets
    flInflight,       \* /boudoir/loras-in-folder requests in flight (a bag)
    loraCache,        \* ollamaEnhancer.js's loraCache
    \* a save of the rows and the reload that follows it
    reload,
    \* js/ollamaEnhancer.js (the prompt enhancer node)
    enNode,           \* the enhancer node: its widgets and deferred callbacks
    \* the wrapped hooks of all four files
    hostCall          \* the last call of a wrapped hook, and the calls it made

plVars == <<plPhase, loraRows, loraList, triggerDisplays, loraData, nodeHeight,
            triggerEls, domOrder, dropdowns, plInflight, plCache, threw>>

mlVars == <<mlPhase, mlValue, mlDisplays, mlInflight, mlCache>>

srVars == <<srNode, dialogs, srInflight>>

flVars == <<flNode, flInflight, loraCache>>

vars == <<plVars, mlVars, srVars, flVars, reload, enNode, hostCall>>

\* obj[key] of a JavaScript object used as a map from text to text
MapGet(map, key) == IF key \in DOMAIN map THEN map[key] ELSE <<>>

MapPut(map, key, val) == [k \in DOMAIN map \cup {key} |-> IF k = key THEN val ELSE map[k]]

\* a variant that deletes nothing, to test the sensitivity of the properties
MapDeleteKept(map, key) == map

MapDelete(map, key) == [k \in DOMAIN map \ {key} |-> map[k]]

EmptyMap == [k \in {} |-> <<>>]

\* String(v), for the values a row's lora field holds
NameOf(v) == IF v.t = "string" THEN v.s ELSE JsonStringify(v)

(***************************************************************************)
(* powerLoraWidget.js: the synchronous helpers.  A "world" w is the part   *)
(* of the state a handler's calls change on their way:                     *)
(*   [td, els, order, inflight, threw].                                    *)
(***************************************************************************)
World == [td |-> triggerDisplays, els |-> triggerEls, order |-> domOrder,
          inflight |-> plInflight, threw |-> FALSE]

\* document.getElementById("trigger-" + index): the first such element in
\* document order, as [found, n]
TriggerElOwner(w, index) ==
    LET hits == {k \in 1..Len(w.order) : Len(w.els[w.order[k]]) > index}
    IN  IF hits = {} THEN [found |-> FALSE, n |-> 0]
        ELSE [found |-> TRUE, n |-> w.order[CHOOSE k \in hits : \A j \in hits : k <= j]]

\* updateTriggerDisplay(index, trigger)
UpdateTriggerDisplay(w, index, trigger) ==
    LET o == TriggerElOwner(w, index)
    IN  IF o.found
        THEN [w EXCEPT !.els[o.n][index + 1] = trigger]
        ELSE w

\* a variant that never looks into triggerCache, to test the sensitivity of
\* the properties
FetchTriggerWordUncached(w, n, index, loraName) ==
    IF loraName = <<>> \/ loraName = NoneName
    THEN UpdateTriggerDisplay([w EXCEPT !.td[n] = MapPut(@, index, <<>>)], index, <<>>)
    ELSE [w EXCEPT !.inflight = @ (+) SetToBag({[n |-> n, index |-> index, name |-> loraName]})]

\* fetchTriggerWord(node, index, loraName), up to its first await
FetchTriggerWord(w, n, index, loraName) ==
    IF loraName = <<>> \/ loraName = NoneName
    THEN UpdateTriggerDisplay([w EXCEPT !.td[n] = MapPut(@, index, <<>>)], index, <<>>)
    ELSE IF MapGet(plCache, loraName) # <<>>
    THEN UpdateTriggerDisplay([w EXCEPT !.td[n] = MapPut(@, index, plCache[loraName])],
                              index, plCache[loraName])
    ELSE [w EXCEPT !.inflight = @ (+) SetToBag({[n |-> n, index |-> index, name |-> loraName]})]

\* renderRows(node, container), from row i (0-based) on; the existing row
\* elements have been removed.  Reading a field of a null or undefined row
\* throws.
RECURSIVE RenderRowsFrom(_, _, _, _)
RenderRowsFrom(w, n, rows, i) ==
    IF i >= Len(rows) \/ w.threw THEN w
    ELSE LET row == rows[i + 1]
             lora == GetProp(row, KLora)
             w1 == [w EXCEPT !.els[n] = Append(@, MapGet(w.td[n], i))]
         IN  IF row.t \in {"null", "undefined"} THEN [w EXCEPT !.threw = TRUE]
             ELSE IF Truthy(lora) /\ NameOf(lora) # NoneName
             THEN RenderRowsFrom(FetchTriggerWord(w1, n, i, NameOf(lora)), n, rows, i + 1)
             ELSE RenderRowsFrom(w1, n, rows, i + 1)

\* a variant that builds the row elements and looks no trigger word up, to
\* test the sensitivity of the properties
RenderRowsQuiet(w, n, rows) ==
    IF rows.t # "array" THEN [w EXCEPT !.els[n] = <<>>, !.threw = TRUE]
    ELSE [w EXCEPT !.els[n] = [i \in 1..Len(rows.a) |-> MapGet(w.td[n], i - 1)]]

\* renderRows(node, container); node.loraRows.forEach throws when loraRows is
\* no array
RenderRows(w, n, rows) ==
    IF rows.t # "array" THEN [w EXCEPT !.els[n] = <<>>, !.threw = TRUE]
    ELSE RenderRowsFrom([w EXCEPT !.els[n] = <<>>], n, rows.a, 0)

\* a variant without the minimum, to test the sensitivity of the properties
UpdateNodeSizeUnfloored(rows) == BaseHeight + Len(rows.a) * RowHeight

\* updateNodeSize(node): the new node.size[1]
UpdateNodeSize(rows) ==
    LET newHeight == BaseHeight + Len(rows.a) * RowHeight
    IN  IF newHeight > MinHeight THEN newHeight ELSE MinHeight

\* a variant that writes nothing, to test the sensitivity of the properties
SyncToWidgetSkipped(widget, rows) == widget

\* syncToWidget(node): the new lora_data widget
SyncToWidget(widget, rows) ==
    IF widget.present THEN [widget EXCEPT !.value = JsonStringify(rows)] ELSE widget

\* a variant without the try/catch, to test the sensitivity of the properties
ParseLoraDataUnguarded(widget) ==
    IF ~widget.present \/ widget.value = <<>> \/ widget.value = <<"[", "]">>
    THEN [rows |-> JArr(<<>>), threw |-> FALSE]
    ELSE [rows |-> JsonParse(widget.value).v, threw |-> ~JsonParse(widget.value).ok]

\* parseLoraData(node): [rows |-> the new node.loraRows, threw |-> whether an
\* exception leaves the function]
ParseLoraData(widget) ==
    IF ~widget.present \/ widget.value = <<>> \/ widget.value = <<"[", "]">>
    THEN [rows |-> JArr(<<>>), threw |-> FALSE]
    ELSE LET r == JsonParse(widget.value)
         IN  IF r.ok THEN [rows |-> r.v, threw |-> FALSE]
             ELSE [rows |-> JArr(<<>>), threw |-> FALSE]

(***************************************************************************)
(* powerLoraWidget.js: the dropdown                                        *)
(***************************************************************************)
\* node.loraList.filter(lora => lora.toLowerCase().includes(filterLower))
FilterLoras(list, filter) ==
    SelectSeq(list, LAMBDA lora : Includes(ToLowerCase(lora), ToLowerCase(filter)))

\* a variant without the cap, to test the sensitivity of the properties
RenderItemsUncapped(list, filter) == [items |-> FilterLoras(list, filter), hidden |-> 0]

\* renderItems(filter): the candidates listed under the "None" item, and
\* how many more matches the "... more" line reports (0: no such line)
RenderItems(list, filter) ==
    LET filtered == FilterLoras(list, filter)
    IN  [items |-> SubSeq(filtered, 1, IF Len(filtered) > DropdownCap THEN DropdownCap
                                       ELSE Len(filtered)),
         hidden |-> IF Len(filtered) > DropdownCap THEN Len(filtered) - DropdownCap ELSE 0]

\* a variant that lists the candidates only, to test the sensitivity of the
\* properties
ListChildrenBare(view) == [j \in 1..Len(view.items) |-> [kind |-> "lora", text |-> view.items[j]]]

\* the children of the list container after renderItems: the "None" item
\* (its click empties the row's lora), one item per listed candidate (its
\* click sets the row's lora to the candidate), and the "... more" line
ListChildren(view) ==
    << [kind |-> "none", text |-> NoneName] >>
    \o [j \in 1..Len(view.items) |-> [kind |-> "lora", text |-> view.items[j]]]
    \o (IF view.hidden > 0 THEN << [kind |-> "more", text |-> NatText(view.hidden)] >>
        ELSE << >>)

\* the dropdown showLoraDropdown builds for row index of node n; rowLive and
\* selLive tell whether the row object and the select element its closures
\* hold are still the node's
NewDropdown(n, index) ==
    [n |-> n, index |-> index, rowLive |-> TRUE, selLive |-> TRUE,
     view |-> RenderItems(loraList[n], <<>>)]

\* a variant that removes no dropdown, to test the sensitivity of the
\* properties
ShowLoraDropdownKeeping(dds, n, index) == Append(dds, NewDropdown(n, index))

\* showLoraDropdown: document.querySelector(".power-lora-dropdown") is
\* removed when there is one, and the new dropdown is appended to the body
ShowLoraDropdown(dds, n, index) ==
    Append(IF dds = <<>> THEN dds ELSE Tail(dds), NewDropdown(n, index))

\* closeHandler, on a mousedown outside every dropdown: each open dropdown
\* is removed by its own handler.  (The handler is added 10 ms after the
\* dropdown opens; the model takes that timer to fire before the next input
\* event.)
MouseDownOutside(dds) == SelectSeq(dds, LAMBDA d : FALSE)

\* closeHandler, on a mousedown on the select element of row index of node
\* n: a dropdown that this element opened stays
MouseDownOnSelect(dds, n, index) ==
    SelectSeq(dds, LAMBDA d : d.n = n /\ d.index = index /\ d.selLive)

(***************************************************************************)
(* powerLoraWidget.js: the handlers                                        *)
(***************************************************************************)
\* what a handler of powerLoraWidget.js leaves alone
OthersPL == UNCHANGED <<mlVars, srVars, flVars, reload, enNode, hostCall>>

\* the node's container is in the document, and no prompt dialog covers it
Attached(n) == \E k \in 1..Len(domOrder) : domOrder[k] = n

Reachable(n) == Attached(n) /\ dialogs = <<>>

Detach(order, n) == SelectSeq(order, LAMBDA m : m # n)

\* how the /object_info request of loadLoraList can end: set tells whether
\* the response was read and held a node with a lora_name input
ObjectInfoFailed == [set |-> FALSE, list |-> <<>>]

ObjectInfoOutcomes == { ObjectInfoFailed, [set |-> TRUE, list |-> <<LoraA, LoraB>>] }

\* the values the strength input hands to its change handler
StrengthInputs == { <<"0", ".", "5">>, <<>>, <<"0">> }

\* the texts typed into the dropdown's search box
FilterInputs == { <<>>, <<"b">> }

\* the deferred callback of onNodeCreated (100 ms) or of onConfigure
\* (200 ms) fires: injectStyles, hideDataWidget, and loadLoraList sends its
\* request.  The two timers fire in the order they were set.
TimerFires(n, path) ==
    /\ plPhase[n][path] = "timer"
    /\ path = "config" => plPhase[n].create # "timer"
    /\ plPhase' = [plPhase EXCEPT ![n][path] = "fetch"]
    /\ threw' = FALSE
    /\ UNCHANGED <<loraRows, loraList, triggerDisplays, loraData, nodeHeight,
                   triggerEls, domOrder, dropdowns, plInflight, plCache>>
    /\ OthersPL

\* loadLoraList's request ends; then parseLoraData (on the configure path)
\* and createUI run
ObjectInfoDone(n, path, out) ==
    /\ plPhase[n][path] = "fetch"
    /\ loraList' = [loraList EXCEPT ![n] =
                      IF out.set /\ out.list # <<>> THEN out.list
                      ELSE IF ~out.set /\ @ # <<>> THEN @
                      ELSE <<NoneName>>]
    /\ \E parsed \in {IF path = "config" THEN ParseLoraData(loraData[n])
                       ELSE [rows |-> loraRows[n], threw |-> FALSE]} :
       \* createUI: the old container leaves the document, the rows are
       \* rendered into the new one, which is then added to the document
       \E w \in {IF parsed.threw THEN [World EXCEPT !.threw = TRUE]
                  ELSE RenderRows([World EXCEPT !.order = Detach(domOrder, n)],
                                  n, parsed.rows)} :
           /\ BagCardinality(w.inflight) <= MaxInflight
           /\ plPhase' = [plPhase EXCEPT ![n][path] = "done"]
           /\ loraRows' = [loraRows EXCEPT ![n] = IF parsed.threw THEN @ ELSE parsed.rows]
           /\ triggerDisplays' = w.td
           /\ triggerEls' = w.els
           /\ domOrder' = IF w.threw THEN w.order ELSE Append(w.order, n)
           /\ nodeHeight' = IF w.threw THEN nodeHeight
                            ELSE [nodeHeight EXCEPT ![n] = UpdateNodeSize(parsed.rows)]
           /\ plInflight' = w.inflight
           /\ dropdowns' = [k \in 1..Len(dropdowns) |->
                              IF dropdowns[k].n = n
                              THEN [dropdowns[k] EXCEPT
                                      !.selLive = FALSE,
                                      !.rowLive = @ /\ path # "config"]
                              ELSE dropdowns[k]]
           /\ threw' = w.threw
    /\ UNCHANGED <<loraData, plCache>>
    /\ OthersPL

\* addBtn.onclick; cap bounds the rows the user adds
AddClick(n, cap) ==
    /\ Reachable(n)
    /\ loraRows[n].t = "array"
    /\ Len(loraRows[n].a) < cap
    /\ LET rows == JArr(Append(loraRows[n].a, DefaultRow))
           w == RenderRows(World, n, rows)
       IN  /\ BagCardinality(w.inflight) <= MaxInflight
           /\ loraRows' = [loraRows EXCEPT ![n] = rows]
           /\ loraData' = [loraData EXCEPT ![n] = SyncToWidget(@, rows)]
           /\ triggerDisplays' = w.td
           /\ triggerEls' = w.els
           /\ plInflight' = w.inflight
           /\ nodeHeight' = [nodeHeight EXCEPT ![n] = UpdateNodeSize(rows)]
           /\ threw' = w.threw
    /\ dropdowns' = MouseDownOutside(dropdowns)
    /\ UNCHANGED <<plPhase, loraList, domOrder, plCache>>
    /\ OthersPL

\* deleteBtn.onclick of the row rendered at index i
DeleteClick(n, i) ==
    /\ Reachable(n)
    /\ i < Len(triggerEls[n])
    /\ loraRows[n].t = "array"
    /\ LET rows == JArr(RemoveAt(loraRows[n].a, i + 1))
           w0 == [World EXCEPT !.td[n] = MapDelete(@, i)]
           w == RenderRows(w0, n, rows)
       IN  /\ BagCardinality(w.inflight) <= MaxInflight
           /\ loraRows' = [loraRows EXCEPT ![n] = rows]
           /\ loraData' = [loraData EXCEPT ![n] = SyncToWidget(@, rows)]
           /\ triggerDisplays' = w.td
           /\ triggerEls' = w.els
           /\ plInflight' = w.inflight
           /\ nodeHeight' = [nodeHeight EXCEPT ![n] = UpdateNodeSize(rows)]
           /\ threw' = w.threw
    /\ dropdowns' = MouseDownOutside(dropdowns)
    /\ UNCHANGED <<plPhase, loraList, domOrder, plCache>>
    /\ OthersPL

\* node.loraRows after row.<key> = v on the row object rendered at index i
SetRowField(rows, i, key, v) ==
    JArr([rows.a EXCEPT ![i + 1] = SetProp(@, key, v)])

\* toggle.onclick of the row rendered at index i
ToggleClick(n, i) ==
    /\ Reachable(n)
    /\ i < Len(triggerEls[n])
    /\ loraRows[n].a[i + 1].t = "object"
    /\ LET row == loraRows[n].a[i + 1]
           rows == SetRowField(loraRows[n], i, KOn, JBool(~Truthy(GetProp(row, KOn))))
       IN  /\ loraRows' = [loraRows EXCEPT ![n] = rows]
           /\ loraData' = [loraData EXCEPT ![n] = SyncToWidget(@, rows)]
    /\ dropdowns' = MouseDownOutside(dropdowns)
    /\ threw' = FALSE
    /\ UNCHANGED <<plPhase, loraList, triggerDisplays, nodeHeight, triggerEls,
                   domOrder, plInflight, plCache>>
    /\ OthersPL

\* parseFloat(e.target.value) || 1.0
StrengthOf(text) ==
    LET v == ParseFloat(text)
    IN  IF Truthy(v) THEN v ELSE JNum(100)

\* strength.onchange of the row rendered at index i
StrengthChange(n, i, text) ==
    /\ Reachable(n)
    /\ i < Len(triggerEls[n])
    /\ loraRows[n].a[i + 1].t = "object"
    /\ LET rows == SetRowField(loraRows[n], i, KStrength, StrengthOf(text))
       IN  /\ loraRows' = [loraRows EXCEPT ![n] = rows]
           /\ loraData' = [loraData EXCEPT ![n] = SyncToWidget(@, rows)]
    /\ dropdowns' = MouseDownOutside(dropdowns)
    /\ threw' = FALSE
    /\ UNCHANGED <<plPhase, loraList, triggerDisplays, nodeHeight, triggerEls,
                   domOrder, plInflight, plCache>>
    /\ OthersPL

\* select.onclick of the row rendered at index i: showLoraDropdown
SelectClick(n, i) ==
    /\ Reachable(n)
    /\ i < Len(triggerEls[n])
    /\ dropdowns' = ShowLoraDropdown(MouseDownOnSelect(dropdowns, n, i), n, i)
    /\ threw' = FALSE
    /\ UNCHANGED <<plPhase, loraRows, loraList, triggerDisplays, loraData, nodeHeight,
                   triggerEls, domOrder, plInflight, plCache>>
    /\ OthersPL

\* searchInput.oninput of the k-th open dropdown: renderItems(filter)
DropdownInput(k, filter) ==
    /\ k \in 1..Len(dropdowns)
    /\ dropdowns' = [dropdowns EXCEPT
                       ![k].view = RenderItems(loraList[dropdowns[k].n], filter)]
    /\ threw' = FALSE
    /\ UNCHANGED <<plPhase, loraRows, loraList, triggerDisplays, loraData, nodeHeight,
                   triggerEls, domOrder, plInflight, plCache>>
    /\ OthersPL

\* a variant that sets nothing, to test the sensitivity of the properties
SetRowLoraSkipped(d, name) == loraRows[d.n]

\* node.loraRows after row.lora = name in the closure of dropdown d: the row
\* object is one of node.loraRows only while d.rowLive
SetRowLora(d, name) ==
    IF d.rowLive THEN SetRowField(loraRows[d.n], d.index, KLora, JStr(name))
    ELSE loraRows[d.n]

\* item.onclick of the j-th listed candidate of the k-th open dropdown
ItemClick(k, j) ==
    /\ k \in 1..Len(dropdowns)
    /\ j \in 1..Len(dropdowns[k].view.items)
    /\ LET d == dropdowns[k]
           name == d.view.items[j]
           rows == SetRowLora(d, name)
           w == FetchTriggerWord(World, d.n, d.index, name)
       IN  /\ BagCardinality(w.inflight) <= MaxInflight
           /\ loraRows' = [loraRows EXCEPT ![d.n] = rows]
           /\ loraData' = [loraData EXCEPT ![d.n] = SyncToWidget(@, rows)]
           /\ triggerDisplays' = w.td
           /\ triggerEls' = w.els
           /\ plInflight' = w.inflight
    /\ dropdowns' = RemoveAt(dropdowns, k)
    /\ threw' = FALSE
    /\ UNCHANGED <<plPhase, loraList, nodeHeight, domOrder, plCache>>
    /\ OthersPL

\* noneItem.onclick of the k-th open dropdown
NoneClick(k) ==
    /\ k \in 1..Len(dropdowns)
    /\ LET d == dropdowns[k]
           rows == SetRowLora(d, <<>>)
           w == UpdateTriggerDisplay([World EXCEPT !.td[d.n] = MapPut(@, d.index, <<>>)],
                                     d.index, <<>>)
       IN  /\ loraRows' = [loraRows EXCEPT ![d.n] = rows]
           /\ loraData' = [loraData EXCEPT ![d.n] = SyncToWidget(@, rows)]
           /\ triggerDisplays' = w.td
           /\ triggerEls' = w.els
    /\ dropdowns' = RemoveAt(dropdowns, k)
    /\ threw' = FALSE
    /\ UNCHANGED <<plPhase, loraList, nodeHeight, domOrder, plInflight, plCache>>
    /\ OthersPL

\* a mousedown outside the open dropdowns, on nothing that has a handler
OutsideClick ==
    /\ dropdowns # <<>>
    /\ dropdowns' = MouseDownOutside(dropdowns)
    /\ threw' = FALSE
    /\ UNCHANGED <<plPhase, loraRows, loraList, triggerDisplays, loraData, nodeHeight,
                   triggerEls, domOrder, plInflight, plCache>>
    /\ OthersPL

\* fetchTriggerWord after its await: the request req ends with outcome out
TriggerResponse(req, out) ==
    /\ req \in BagToSet(plInflight)
    /\ plInflight' = plInflight (-) SetToBag({req})
    /\ LET data == ServerTrigger(req.name)
       IN  IF out = "ok" /\ data.has /\ data.word # <<>>
           THEN LET trigger == Trim(data.word)
                    w == UpdateTriggerDisplay(
                            [World EXCEPT !.td[req.n] = MapPut(@, req.index, trigger)],
                            req.index, trigger)
                IN  /\ plCache' = MapPut(plCache, req.name, trigger)
                    /\ triggerDisplays' = w.td
                    /\ triggerEls' = w.els
           ELSE UNCHANGED <<plCache, triggerDisplays, triggerEls>>
    /\ threw' = FALSE
    /\ UNCHANGED <<plPhase, loraRows, loraList, loraData, nodeHeight, domOrder, dropdowns>>
    /\ OthersPL

(***************************************************************************)
(* unnamed/part_000: the MultiLoRA node.  Its combo widgets are lora_1,     *)
(* lora_2, ...; the model follows the first MLSlots of them.               *)
(***************************************************************************)
MLSlots == 2

\* setupTriggerDisplays: for (let i = 1; i <= 5; i++)
TriggerSlots == 5

\* the values a lora_<k> combo offers
MLValues == {NoneName, LoraA, LoraC}

OthersML == UNCHANGED <<plVars, srVars, flVars, reload, enNode, hostCall>>

\* a "world" of the MultiLoRA node: [td, inflight]
MLWorld == [td |-> mlDisplays, inflight |-> mlInflight]

\* setupTriggerDisplays(node): the new node.triggerDisplays
SetupTriggerDisplays(td) ==
    [k \in DOMAIN td \cup 1..TriggerSlots |->
        IF k \in DOMAIN td /\ td[k] # <<>> THEN td[k] ELSE <<>>]

\* a variant without the test for "" and "None", to test the sensitivity of
\* the properties
MLFetchTriggerWordAny(w, slot, loraName) ==
    IF MapGet(mlCache, loraName) # <<>>
    THEN [w EXCEPT !.td = MapPut(@, slot, mlCache[loraName])]
    ELSE [w EXCEPT !.inflight = @ (+) SetToBag({[slot |-> slot, name |-> loraName]})]

\* fetchTriggerWord(node, "lora_" + slot, loraName), up to its first await
MLFetchTriggerWord(w, slot, loraName) ==
    IF loraName = <<>> \/ loraName = NoneName
    THEN [w EXCEPT !.td = MapPut(@, slot, <<>>)]
    ELSE IF MapGet(mlCache, loraName) # <<>>
    THEN [w EXCEPT !.td = MapPut(@, slot, mlCache[loraName])]
    ELSE [w EXCEPT !.inflight = @ (+) SetToBag({[slot |-> slot, name |-> loraName]})]

\* the loop over node.widgets that fetches the trigger of every combo whose
\* value is set and not "None", from slot k on
RECURSIVE MLFetchSelected(_, _)
MLFetchSelected(w, k) ==
    IF k > MLSlots THEN w
    ELSE IF mlValue[k] # <<>> /\ mlValue[k] # NoneName
    THEN MLFetchSelected(MLFetchTriggerWord(w, k, mlValue[k]), k + 1)
    ELSE MLFetchSelected(w, k + 1)

\* the deferred callbacks, which fire in the order they were set: that of
\* onNodeCreated (100 ms), that of nodeCreated (200 ms), which hooks the
\* combos' callbacks, and that of onConfigure (200 ms)
MLTimerFires ==
    /\ mlPhase.stage \in {"setup", "hook", "config"}
    /\ LET td == SetupTriggerDisplays(mlDisplays)
           w == IF mlPhase.stage = "setup" THEN [MLWorld EXCEPT !.td = td]
                ELSE MLFetchSelected([MLWorld EXCEPT !.td = td], 1)
       IN  /\ BagCardinality(w.inflight) <= MaxInflight
           /\ mlDisplays' = w.td
           /\ mlInflight' = w.inflight
    /\ mlPhase' = [mlPhase EXCEPT
                     !.stage = IF mlPhase.stage = "setup" THEN "hook"
                               ELSE IF mlPhase.stage = "hook" /\ mlPhase.restored
                               THEN "config" ELSE "ready",
                     !.hooked = @ \/ mlPhase.stage = "hook"]
    /\ UNCHANGED <<mlValue, mlCache>>
    /\ OthersML

\* the user picks value in the lora_<slot> combo: the host sets the widget's
\* value and calls its callback, which is the wrapper once it is installed
MLSelect(slot, value) ==
    /\ mlPhase.stage # "none"
    /\ mlValue' = [mlValue EXCEPT ![slot] = value]
    /\ LET w == IF mlPhase.hooked THEN MLFetchTriggerWord(MLWorld, slot, value)
                ELSE MLWorld
       IN  /\ BagCardinality(w.inflight) <= MaxInflight
           /\ mlDisplays' = w.td
           /\ mlInflight' = w.inflight
    /\ UNCHANGED <<mlPhase, mlCache>>
    /\ OthersML

\* fetchTriggerWord after its await: the request req ends with outcome out
MLTriggerResponse(req, out) ==
    /\ req \in BagToSet(mlInflight)
    /\ mlInflight' = mlInflight (-) SetToBag({req})
    /\ LET data == ServerTrigger(req.name)
       IN  IF out = "ok" /\ data.has /\ data.word # <<>>
           THEN /\ mlCache' = MapPut(mlCache, req.name, Trim(data.word))
                /\ mlDisplays' = MapPut(mlDisplays, req.slot, Trim(data.word))
           ELSE UNCHANGED <<mlCache, mlDisplays>>
    /\ UNCHANGED <<mlPhase, mlValue>>
    /\ OthersML

(***************************************************************************)
(* js/ollamaEnhancer.js: the folder loader node                            *)
(***************************************************************************)
NoSubfolders == "(no subfolders)"

Folders == {"f", "g"}

OthersFL == UNCHANGED <<plVars, mlVars, srVars, reload, enNode, hostCall>>

\* how a /boudoir/loras-in-folder request can end: a body that is JSON, with
\* or without a loras field (the status is not looked at), or an exception
\* (the transport fails, or the body is no JSON)
FolderOutcomes ==
    { [kind |-> "json", has |-> TRUE, loras |-> <<LoraA, LoraB>>],
      [kind |-> "json", has |-> TRUE, loras |-> <<LoraB>>],
      [kind |-> "json", has |-> TRUE, loras |-> <<>>],
      [kind |-> "json", has |-> FALSE, loras |-> <<>>],
      [kind |-> "throws", has |-> FALSE, loras |-> <<>>] }

\* if (loraCache[folder]): an array, empty or not, is truthy
CacheHit(cache, folder) == folder \in DOMAIN cache

\* updateLoraDropdown(folder) after fetchLorasInFolder returned loras: the
\* new lora_name widget
ApplyLoras(node, loras) ==
    IF loras = <<>>
    THEN [node EXCEPT !.options = <<NoneName>>, !.value = NoneName]
    ELSE [node EXCEPT !.options = loras,
                      !.value = IF \E k \in 1..Len(loras) : loras[k] = node.value
                                THEN node.value ELSE loras[1]]

\* updateLoraDropdown(folder), up to its await: [node, inflight]
UpdateLoraDropdown(node, inflight, folder) ==
    IF folder = "" \/ folder = NoSubfolders
    THEN [node |-> [node EXCEPT !.options = <<NoneName>>, !.value = NoneName],
          inflight |-> inflight]
    ELSE IF CacheHit(loraCache, folder)
    THEN [node |-> ApplyLoras(node, loraCache[folder]), inflight |-> inflight]
    ELSE [node |-> node, inflight |-> inflight (+) SetToBag({[folder |-> folder]})]

\* the user picks folder in the lora_folder combo: the host sets the value
\* and calls the widget's callback
FolderCallback(folder) ==
    /\ flNode.exists
    /\ LET r == UpdateLoraDropdown([flNode EXCEPT !.folder = folder], flInflight, folder)
       IN  /\ BagCardinality(r.inflight) <= MaxInflight
           /\ flNode' = r.node
           /\ flInflight' = r.inflight
    /\ UNCHANGED loraCache
    /\ OthersFL

\* fetchLorasInFolder after its await, and the rest of updateLoraDropdown
FolderResponse(req, out) ==
    /\ req \in BagToSet(flInflight)
    /\ flInflight' = flInflight (-) SetToBag({req})
    /\ LET loras == IF out.kind = "json" /\ out.has THEN out.loras ELSE <<>>
       IN  /\ loraCache' = IF out.kind = "json"
                           THEN [f \in DOMAIN loraCache \cup {req.folder} |->
                                   IF f = req.folder THEN loras ELSE loraCache[f]]
                           ELSE loraCache
           /\ flNode' = ApplyLoras(flNode, loras)
    /\ OthersFL

\* no onConfigure of the folder loader is waiting for its listing
NoRestore == [pending |-> FALSE, folder |-> "", lora |-> <<>>]

\* the lora_name values a saved workflow holds: one that the listings
\* hold, one that they do not, and "None"
SavedLoras == {LoraA, LoraC, NoneName}

\* onConfigure after fetchLorasInFolder returned loras: the new lora_name
\* widget
RestoreLoras(node, loras, savedLora) ==
    IF loras # <<>>
    THEN [node EXCEPT !.options = loras,
                      !.value = IF savedLora # <<>>
                                   /\ \E k \in 1..Len(loras) : loras[k] = savedLora
                                THEN savedLora ELSE @]
    ELSE node

\* the host restores the node from a workflow (the widgets get the saved
\* values) and calls onConfigure, which runs up to its await: a cached
\* listing is applied at once
FolderConfigure(savedFolder, savedLora) ==
    /\ flNode.exists
    /\ ~flNode.restore.pending
    /\ LET node == [flNode EXCEPT !.folder = savedFolder, !.value = savedLora]
       IN  flNode' = IF savedFolder = "" THEN node
                     ELSE IF CacheHit(loraCache, savedFolder)
                     THEN RestoreLoras(node, loraCache[savedFolder], savedLora)
                     ELSE [node EXCEPT !.restore = [pending |-> TRUE, folder |-> savedFolder,
                                                    lora |-> savedLora]]
    /\ UNCHANGED <<flInflight, loraCache>>
    /\ OthersFL

\* fetchLorasInFolder after its await, and the rest of onConfigure
FolderConfigureDone(out) ==
    /\ flNode.restore.pending
    /\ LET loras == IF out.kind = "json" /\ out.has THEN out.loras ELSE <<>>
           folder == flNode.restore.folder
       IN  /\ loraCache' = IF out.kind = "json"
                           THEN [f \in DOMAIN loraCache \cup {folder} |->
                                   IF f = folder THEN loras ELSE loraCache[f]]
                           ELSE loraCache
           /\ flNode' = RestoreLoras([flNode EXCEPT !.restore = NoRestore], loras,
                                     flNode.restore.lora)
    /\ UNCHANGED flInflight
    /\ OthersFL

(***************************************************************************)
(* unnamed/part_001: the prompt search node                                *)
(***************************************************************************)
\* selectPrompt: text.length > 80 ? text.substring(0, 80) + "..." : text
PreviewLimit == 80

CatAny == <<"a", "n", "y">>

CatArt == <<"a", "r", "t">>

NoSelection == <<"(", "-", ")">>

\* the prompts the search service knows: a short one and one longer than
\* the preview
PromptShort == [id |-> 1, category |-> CatArt, text |-> <<"h", "i">>]

PromptLong == [id |-> 2, category |-> CatArt, text |-> [k \in 1..(PreviewLimit + 1) |-> "x"]]

CatFantasy == <<"f", "a", "n">>

\* a prompt exactly as long as the preview
PromptEdge == [id |-> 3, category |-> CatFantasy, text |-> [k \in 1..PreviewLimit |-> "y"]]

\* how a /boudoir/prompt-search request can end
SearchOutcomes ==
    { [kind |-> "json", success |-> TRUE, prompts |-> <<PromptShort, PromptLong, PromptEdge>>],
      [kind |-> "json", success |-> TRUE, prompts |-> <<>>],
      [kind |-> "json", success |-> FALSE, prompts |-> <<>>],
      [kind |-> "throws", success |-> FALSE, prompts |-> <<>>] }

SearchQueries == { <<>>, <<" ">>, <<"q">> }

plRest == <<plPhase, loraRows, loraList, triggerDisplays, loraData, nodeHeight,
            triggerEls, domOrder, plInflight, plCache, threw>>

OthersSR == UNCHANGED <<plRest, mlVars, flVars, reload, enNode, hostCall>>

\* the canvas widgets of the search node can be used
SearchReachable == srNode.exists /\ dialogs = <<>>

\* showResultsDialog(node, prompts, title): the open dialogs afterwards
ShowResultsDialog(dlgs, prompts, title) ==
    (IF dlgs # <<>> THEN Tail(dlgs) ELSE dlgs) \o <<[title |-> title, prompts |-> prompts]>>

\* a variant that never truncates, to test the sensitivity of the properties
PreviewWhole(text) == text

Preview(text) ==
    IF Len(text) > PreviewLimit THEN SubSeq(text, 1, PreviewLimit) \o <<".", ".", ".">>
    ELSE text

\* the user types query into the search widget
SearchType(query) ==
    /\ SearchReachable
    /\ srNode' = [srNode EXCEPT !.query = query]
    /\ dropdowns' = MouseDownOutside(dropdowns)
    /\ UNCHANGED <<dialogs, srInflight>>
    /\ OthersSR

\* the user picks a category in the filter combo
FilterPick(category) ==
    /\ SearchReachable
    /\ srNode' = [srNode EXCEPT !.filter = category]
    /\ dropdowns' = MouseDownOutside(dropdowns)
    /\ UNCHANGED <<dialogs, srInflight>>
    /\ OthersSR

\* the search button: performSearch(node, query, category) up to its await
SearchClick ==
    /\ SearchReachable
    /\ dropdowns' = MouseDownOutside(dropdowns)
    /\ IF Trim(srNode.query) = <<>>
       THEN /\ dialogs' = ShowResultsDialog(dialogs, <<>>, "Please enter a search term")
            /\ UNCHANGED srInflight
       ELSE /\ BagCardinality(srInflight) < MaxInflight
            /\ srInflight' = srInflight (+)
                   SetToBag({[q |-> srNode.query, category |-> srNode.filter]})
            /\ UNCHANGED dialogs
    /\ UNCHANGED srNode
    /\ OthersSR

\* a variant that reports an exception as "No prompts found", to test the
\* sensitivity of the properties
SearchResponseMerged(req, out) ==
    /\ req \in BagToSet(srInflight)
    /\ srInflight' = srInflight (-) SetToBag({req})
    /\ dialogs' = IF out.kind = "throws" \/ ~out.success \/ out.prompts = <<>>
                  THEN ShowResultsDialog(dialogs, <<>>, "No prompts found")
                  ELSE ShowResultsDialog(dialogs, out.prompts, "Found prompts")
    /\ UNCHANGED <<srNode, dropdowns>>
    /\ OthersSR

\* performSearch after its await: the request req ends with outcome out
SearchResponse(req, out) ==
    /\ req \in BagToSet(srInflight)
    /\ srInflight' = srInflight (-) SetToBag({req})
    /\ dialogs' = IF out.kind = "throws" THEN ShowResultsDialog(dialogs, <<>>, "Error")
                  ELSE IF ~out.success \/ out.prompts = <<>>
                  THEN ShowResultsDialog(dialogs, <<>>, "No prompts found")
                  ELSE ShowResultsDialog(dialogs, out.prompts, "Found prompts")
    /\ UNCHANGED <<srNode, dropdowns>>
    /\ OthersSR

\* the close button, a click on the backdrop, or the Escape key; a click is
\* also a mousedown outside any LoRA dropdown
DialogClose(how) ==
    /\ dialogs # <<>>
    /\ dialogs' = SubSeq(dialogs, 1, Len(dialogs) - 1)
    /\ dropdowns' = IF how = "escape" THEN dropdowns ELSE MouseDownOutside(dropdowns)
    /\ UNCHANGED <<srNode, srInflight>>
    /\ OthersSR

\* a click on the j-th result: selectPrompt(node, prompt, overlay)
PromptClick(j) ==
    /\ dialogs # <<>>
    /\ j \in 1..Len(dialogs[Len(dialogs)].prompts)
    /\ LET prompt == dialogs[Len(dialogs)].prompts[j]
       IN  srNode' = [srNode EXCEPT !.prompt = prompt.text, !.id = prompt.id,
                                    !.category = prompt.category,
                                    !.display = <<"[">> \o prompt.category \o <<"]", " ">>
                                                \o Preview(prompt.text)]
    /\ dialogs' = SubSeq(dialogs, 1, Len(dialogs) - 1)
    /\ dropdowns' = MouseDownOutside(dropdowns)
    /\ UNCHANGED srInflight
    /\ OthersSR

(***************************************************************************)
(* js/ollamaEnhancer.js: the prompt enhancer node.  Its display widget is  *)
(* [present, value, el, elValue]: whether the enhanced_display widget      *)
(* exists, its value, whether it has an inputEl, and inputEl.value.        *)
(***************************************************************************)
OthersEN == UNCHANGED <<plVars, mlVars, srVars, flVars, reload, hostCall>>

\* "(run workflow to see enhanced prompt)"
DefaultDisplay == <<"(", "r", "u", "n", ")">>

\* the text field of the messages onExecuted gets: none, "", a string, a
\* list of strings, an empty list
ExecutedTexts ==
    { JUndefined, JStr(<<>>), JStr(<<"t">>), JArr(<<JStr(<<"u">>), JStr(<<"v">>)>>),
      JArr(<<>>) }

\* the heights computeSize gives for the node with its display widget
HostTargets == {100, 300}

\* inputEl.value after inputEl.value = v: the text of v ("" for null)
ElText(v) ==
    CASE v.t = "string" -> v.s
      [] v.t = "null" -> <<>>
      [] v.t = "undefined" -> <<"u", "n", "d", "e", "f", "i", "n", "e", "d">>
      [] OTHER -> JsonStringify(v)

\* displayWidget.value = v, and inputEl.value = v when there is an inputEl
SetDisplay(node, v) ==
    [node EXCEPT !.display.value = v,
                 !.display.elValue = IF node.display.el THEN ElText(v) ELSE @,
                 !.dirty = TRUE]

\* a variant that shows a list as it is, to test the sensitivity of the
\* properties
ShownTextPlain(text) == text

\* Array.isArray(message.text) ? message.text[0] : message.text
ShownText(text) ==
    IF text.t = "array" THEN (IF text.a = <<>> THEN JUndefined ELSE text.a[1]) ELSE text

\* onExecuted(message), text being message?.text
OnExecuted(node, text) ==
    IF Truthy(text) /\ node.display.present THEN SetDisplay(node, ShownText(text))
    ELSE node

EnExecuted(text) ==
    /\ enNode.exists
    /\ enNode' = OnExecuted(enNode, text)
    /\ OthersEN

\* the deferred callback of onNodeCreated (100 ms): the display widget is
\* created unless the node has one, and the node grows to the height
\* computeSize gives
EnTimerFires ==
    /\ enNode.exists
    /\ enNode.create = "timer"
    /\ IF enNode.display.present
       THEN enNode' = [enNode EXCEPT !.create = "done"]
       ELSE \E hasEl \in BOOLEAN, target \in HostTargets :
              enNode' = [enNode EXCEPT
                           !.create = "done",
                           !.display = [present |-> TRUE, value |-> JStr(DefaultDisplay),
                                        el |-> hasEl, elValue |-> DefaultDisplay],
                           !.height = IF @ < target THEN target ELSE @]
    /\ OthersEN

\* the deferred callback of onConfigure (200 ms), which fires after that of
\* onNodeCreated: the saved display value is restored
EnConfigTimerFires ==
    /\ enNode.exists
    /\ enNode.config = "timer"
    /\ enNode.create # "timer"
    /\ enNode' = [(IF Truthy(enNode.saved) /\ enNode.display.present
                   THEN SetDisplay(enNode, enNode.saved) ELSE enNode)
                  EXCEPT !.config = "done"]
    /\ OthersEN

\* the user types into the node's prompt widget
EnType(text) ==
    /\ enNode.exists
    /\ enNode' = [enNode EXCEPT !.prompt = text]
    /\ OthersEN

(***************************************************************************)
(* The wrapped hooks.  hostCall is [hook, prev, this, args, trace]: the    *)
(* hook the host called last, whether a handler was installed before the   *)
(* extension wrapped it, the receiver and the arguments of the call, and   *)
(* the calls the wrapper made: [who, this, args] with who "previous" for   *)
(* the handler installed before and "own" for the extension's code.        *)
(***************************************************************************)
OthersCall == UNCHANGED <<plVars, mlVars, srVars, flVars, reload, enNode>>

\* wrappers written  prev?.apply(this, arguments)  or
\* if (prev) prev.apply(this, arguments)
LifecycleHooks ==
    { "PowerLoRA.onNodeCreated", "PowerLoRA.onConfigure",
      "MultiLoRA.onNodeCreated", "MultiLoRA.onConfigure",
      "Enhancer.onExecuted", "Enhancer.onNodeCreated", "Enhancer.onSerialize",
      "Enhancer.onConfigure",
      "FolderLoader.onNodeCreated", "FolderLoader.onConfigure",
      "Search.onNodeCreated", "Search.onSerialize", "Search.onConfigure" }

\* wrappers written  if (originalCallback) originalCallback.call(this, value)
WidgetCallbacks == { "MultiLoRA.lora_k.callback", "FolderLoader.lora_folder.callback" }

Hooks == LifecycleHooks \cup WidgetCallbacks

\* the receivers and the argument lists of the host's calls; the host calls
\* a widget callback with (value, canvas, node, pos, event)
Receivers == {"node", "widget"}

HostArgs == { <<"v">>, <<"v", "canvas", "node">> }

\* the arguments the wrapper of hook hands to the handler installed before
PassedArgs(hook, args) ==
    IF hook \in WidgetCallbacks THEN SubSeq(args, 1, 1) ELSE args

\* the calls the wrapper of hook makes, in order
WrapperTrace(hook, prev, this, args) ==
    (IF prev THEN << [who |-> "previous", this |-> this, args |-> PassedArgs(hook, args)] >>
     ELSE << >>)
    \o << [who |-> "own", this |-> this, args |-> args] >>

\* the host calls a wrapped hook
HostCalls(hook, prev, this, args) ==
    /\ hostCall' = [hook |-> hook, prev |-> prev, this |-> this, args |-> args,
                    trace |-> WrapperTrace(hook, prev, this, args)]
    /\ OthersCall

(***************************************************************************)
(* Scenarios.  Every scenario starts after the construction of its nodes;  *)
(* the extensions it does not exercise have no node.                       *)
(***************************************************************************)
\* heights the host can have given a node before the extension sizes it
HostHeights == {58, 400}

NoPL ==
    /\ plPhase = [n \in PLNodes |-> [create |-> "none", config |-> "none"]]
    /\ loraRows = [n \in PLNodes |-> JArr(<<>>)]
    /\ loraList = [n \in PLNodes |-> <<>>]
    /\ triggerDisplays = [n \in PLNodes |-> EmptyMap]
    /\ loraData = [n \in PLNodes |-> [present |-> TRUE, value |-> <<"[", "]">>]]
    /\ nodeHeight = [n \in PLNodes |-> 0]
    /\ triggerEls = [n \in PLNodes |-> <<>>]
    /\ domOrder = <<>>
    /\ dropdowns = <<>>
    /\ plInflight = EmptyBag
    /\ plCache = EmptyMap
    /\ threw = FALSE

NoML ==
    /\ mlPhase = [stage |-> "none", restored |-> FALSE, hooked |-> FALSE]
    /\ mlValue = [k \in 1..MLSlots |-> NoneName]
    /\ mlDisplays = EmptyMap
    /\ mlInflight = EmptyBag
    /\ mlCache = EmptyMap

NoSR ==
    /\ srNode = [exists |-> FALSE, query |-> <<>>, filter |-> CatAny, prompt |-> <<>>,
                 id |-> 0, category |-> <<>>, display |-> NoSelection]
    /\ dialogs = <<>>
    /\ srInflight = EmptyBag

NoFL ==
    /\ flNode = [exists |-> FALSE, folder |-> "", options |-> <<NoneName>>, value |-> NoneName,
                 restore |-> NoRestore]
    /\ flInflight = EmptyBag
    /\ loraCache = EmptyMap

NoEN ==
    enNode = [exists |-> FALSE, create |-> "done", config |-> "done", saved |-> JUndefined,
              display |-> [present |-> FALSE, value |-> JUndefined, el |-> FALSE,
                           elValue |-> <<>>],
              prompt |-> <<>>, height |-> 0, dirty |-> FALSE]

NoCall ==
    hostCall = [hook |-> "none", prev |-> FALSE, this |-> "node", args |-> <<>>,
                trace |-> <<>>]

NoReload ==
    reload = [phase |-> "none", rows |-> JArr(<<>>), text |-> <<"[", "]">>,
              back |-> JArr(<<>>)]

\* the lora_data widget holding text
WidgetOf(text) == [present |-> TRUE, value |-> text]

\* a node type without a lora_data widget
NoWidget == [present |-> FALSE, value |-> <<>>]

\* the lora_data widgets a saved workflow can leave: one saved row, no rows,
\* an empty text, malformed texts, and no widget at all
RestoredWidgets ==
    { WidgetOf(JsonStringify(JArr(<<RowOf(LoraA, 100, TRUE)>>))),
      WidgetOf(<<"[", "]">>), WidgetOf(<<>>), WidgetOf(<<"[", "{">>),
      WidgetOf(<<"[", "1", ",", "]">>), NoWidget }

\* one PowerLoRA node, new or restored from a workflow that left widget
InitPL(restored, widget) ==
    /\ plPhase = [n \in PLNodes |->
                    IF n = 1 THEN [create |-> "timer",
                                   config |-> IF restored THEN "timer" ELSE "none"]
                    ELSE [create |-> "none", config |-> "none"]]
    /\ loraRows = [n \in PLNodes |-> JArr(<<>>)]
    /\ loraList = [n \in PLNodes |-> <<>>]
    /\ triggerDisplays = [n \in PLNodes |-> EmptyMap]
    /\ loraData = [n \in PLNodes |-> IF n = 1 THEN widget ELSE WidgetOf(<<"[", "]">>)]
    /\ \E h \in HostHeights : nodeHeight = [n \in PLNodes |-> IF n = 1 THEN h ELSE 0]
    /\ triggerEls = [n \in PLNodes |-> <<>>]
    /\ domOrder = <<>>
    /\ dropdowns = <<>>
    /\ plInflight = EmptyBag
    /\ plCache = EmptyMap
    /\ threw = FALSE

\* a PowerLoRA node that was just created
NewPL == InitPL(FALSE, WidgetOf(<<"[", "]">>))

\* one MultiLoRA node, new (every combo at "None") or restored
InitML ==
    /\ \E restored \in BOOLEAN :
         /\ mlPhase = [stage |-> "setup", restored |-> restored, hooked |-> FALSE]
         /\ mlValue \in [1..MLSlots -> IF restored THEN {NoneName, LoraA} ELSE {NoneName}]
    /\ mlDisplays = EmptyMap
    /\ mlInflight = EmptyBag
    /\ mlCache = EmptyMap

\* the loading steps of a PowerLoRA node, with the /object_info outcomes outs
NextLoad(outs) ==
    \/ \E n \in PLNodes, path \in {"create", "config"} : TimerFires(n, path)
    \/ \E n \in PLNodes, path \in {"create", "config"}, out \in outs :
         ObjectInfoDone(n, path, out)

\* adding and deleting rows, up to cap rows
NextRows(cap) ==
    \/ \E n \in PLNodes : AddClick(n, cap)
    \/ \E n \in PLNodes, i \in 0..(cap - 1) : DeleteClick(n, i)

\* the toggle and the strength input of a row
NextFields(cap) ==
    \/ \E n \in PLNodes, i \in 0..(cap - 1) : ToggleClick(n, i)
    \/ \E n \in PLNodes, i \in 0..(cap - 1), text \in StrengthInputs :
         StrengthChange(n, i, text)

\* opening, closing and choosing in the dropdown
NextChoose(cap) ==
    \/ \E n \in PLNodes, i \in 0..(cap - 1) : SelectClick(n, i)
    \/ \E k \in 1..Len(dropdowns), j \in 1..DropdownCap : ItemClick(k, j)
    \/ \E k \in 1..Len(dropdowns) : NoneClick(k)
    \/ OutsideClick

NextLookup ==
    \E req \in BagToSet(plInflight), out \in TriggerOutcomes : TriggerResponse(req, out)

NextML ==
    \/ MLTimerFires
    \/ \E slot \in 1..MLSlots, value \in MLValues : MLSelect(slot, value)
    \/ \E req \in BagToSet(mlInflight), out \in TriggerOutcomes : MLTriggerResponse(req, out)

\* trigger lookups: a new PowerLoRA node, or a MultiLoRA node
Init ==
    \/ NewPL /\ NoML /\ NoSR /\ NoFL /\ NoReload /\ NoEN /\ NoCall
    \/ NoPL /\ InitML /\ NoSR /\ NoFL /\ NoReload /\ NoEN /\ NoCall

Next ==
    \/ NextLoad(ObjectInfoOutcomes)
    \/ NextRows(MaxRows)
    \/ NextChoose(MaxRows)
    \/ NextLookup
    \/ NextML

Spec == Init /\ [][Next]_vars

(***************************************************************************)
(* Editing rows: a new PowerLoRA node whose /object_info request fails, so *)
(* that its candidate list is ["None"] and no lookup is sent.              *)
(***************************************************************************)
InitEdit == NewPL /\ NoML /\ NoSR /\ NoFL /\ NoReload /\ NoEN /\ NoCall

NextEdit ==
    \/ NextLoad({ObjectInfoFailed})
    \/ NextRows(MaxRows)
    \/ NextFields(MaxRows)
    \/ NextChoose(MaxRows)

SpecEdit == InitEdit /\ [][NextEdit]_vars

(***************************************************************************)
(* Sizing: the same node, with more rows and no edits of their fields.     *)
(***************************************************************************)
SizeRows == 3

NextSize ==
    \/ NextLoad({ObjectInfoFailed})
    \/ NextRows(SizeRows)
    \/ NextChoose(SizeRows)

SpecSize == InitEdit /\ [][NextSize]_vars

(***************************************************************************)
(* Restoring: a PowerLoRA node configured from a saved workflow.           *)
(***************************************************************************)
InitRestore ==
    /\ \E widget \in RestoredWidgets : InitPL(TRUE, widget)
    /\ NoML /\ NoSR /\ NoFL /\ NoReload /\ NoEN /\ NoCall

NextRestore ==
    \/ NextLoad(ObjectInfoOutcomes)
    \/ NextRows(MaxRows)
    \/ NextLookup

SpecRestore == InitRestore /\ [][NextRestore]_vars

(***************************************************************************)
(* Foreign texts: a PowerLoRA node restored from a workflow whose          *)
(* lora_data is well-formed JSON of any kind.                              *)
(***************************************************************************)
\* null, a number, an object, a string, and two arrays
ForeignWidgets ==
    { WidgetOf(<<"n", "u", "l", "l">>), WidgetOf(<<"5">>), WidgetOf(<<"{", "}">>),
      WidgetOf(<<"\"", "a", "\"">>),
      WidgetOf(JsonStringify(JArr(<<RowOf(LoraA, 100, TRUE)>>))),
      WidgetOf(JsonStringify(JArr(<<RowOf(LoraB, 50, FALSE), DefaultRow>>))) }

InitForeign ==
    /\ \E widget \in ForeignWidgets : InitPL(TRUE, widget)
    /\ NoML /\ NoSR /\ NoFL /\ NoReload /\ NoEN /\ NoCall

SpecForeign == InitForeign /\ [][NextRestore]_vars

(***************************************************************************)
(* Filtering: a new PowerLoRA node with one row and several catalogs.      *)
(***************************************************************************)
FewRows == 1

ExampleList == << <<"a", "b", "c", "d">>, <<"x", "y", "z">>, <<"A", "B", "C", "X">> >>

FilterCatalogs ==
    { [set |-> TRUE, list |-> ExampleList],
      [set |-> TRUE, list |-> << <<"X", "a">>, <<"x", "A", "b">>, <<"a", "x">> >>],
      [set |-> TRUE, list |-> << <<"c", "A", "B", "c">>, <<"a", "b">>, <<"D", "A">>,
                                 <<"A", "B", "C">> >>],
      ObjectInfoFailed }

FilterTexts ==
    { <<>>, <<"a", "b", "c">>, <<"A", "b", "C">>, <<"x">>, <<"X", "A">>, <<"d", "a">> }

InitFilter ==
    /\ \E restored \in BOOLEAN : InitPL(restored, WidgetOf(<<"[", "]">>))
    /\ NoML /\ NoSR /\ NoFL /\ NoReload /\ NoEN /\ NoCall

NextFilter ==
    \/ NextLoad(FilterCatalogs)
    \/ NextRows(FewRows)
    \/ \E n \in PLNodes, i \in 0..(FewRows - 1) : SelectClick(n, i)
    \/ \E k \in 1..Len(dropdowns), filter \in FilterTexts : DropdownInput(k, filter)
    \/ OutsideClick

SpecFilter == InitFilter /\ [][NextFilter]_vars

(***************************************************************************)
(* The folder loader: a node whose folder combo starts at a folder or at   *)
(* "(no subfolders)"; onNodeCreated has run up to its await.               *)
(***************************************************************************)
InitFolder ==
    /\ loraCache = EmptyMap
    /\ \E folder \in {"f", NoSubfolders} :
         LET r == UpdateLoraDropdown([exists |-> TRUE, folder |-> folder,
                                      options |-> <<LoraA>>, value |-> LoraA,
                                      restore |-> NoRestore],
                                     EmptyBag, folder)
         IN  flNode = r.node /\ flInflight = r.inflight
    /\ NoPL /\ NoML /\ NoSR /\ NoReload /\ NoEN /\ NoCall

NextFolder ==
    \/ \E folder \in Folders \cup {NoSubfolders} : FolderCallback(folder)
    \/ \E req \in BagToSet(flInflight), out \in FolderOutcomes : FolderResponse(req, out)

SpecFolder == InitFolder /\ [][NextFolder]_vars

\* the folder loader of a workflow that is loaded: the node is created and
\* then configured, and the user changes the folder afterwards
NextFolderRestore ==
    \/ NextFolder
    \/ \E folder \in Folders \cup {NoSubfolders}, lora \in SavedLoras :
         FolderConfigure(folder, lora)
    \/ \E out \in FolderOutcomes : FolderConfigureDone(out)

SpecFolderRestore == InitFolder /\ [][NextFolderRestore]_vars

(***************************************************************************)
(* Overlays: a new PowerLoRA node and a prompt search node on one page.    *)
(***************************************************************************)
InitOverlay ==
    /\ NewPL /\ NoML /\ NoFL /\ NoReload /\ NoEN /\ NoCall
    /\ srNode = [exists |-> TRUE, query |-> <<>>, filter |-> CatAny, prompt |-> <<>>,
                 id |-> 0, category |-> <<>>, display |-> NoSelection]
    /\ dialogs = <<>>
    /\ srInflight = EmptyBag

NextSearch ==
    \/ \E query \in SearchQueries : SearchType(query)
    \/ \E category \in {CatAny, CatArt} : FilterPick(category)
    \/ SearchClick
    \/ \E req \in BagToSet(srInflight), out \in SearchOutcomes : SearchResponse(req, out)
    \/ \E how \in {"button", "backdrop", "escape"} : DialogClose(how)
    \/ \E j \in 1..Len(PromptLong.text) : PromptClick(j)

NextOverlay ==
    \/ NextLoad({ObjectInfoFailed})
    \/ NextRows(FewRows)
    \/ NextChoose(FewRows)
    \/ NextSearch

SpecOverlay == InitOverlay /\ [][NextOverlay]_vars

(***************************************************************************)
(* Saving and reloading: syncToWidget writes a drawn row sequence to the   *)
(* lora_data widget, and parseLoraData reads it back.                      *)
(***************************************************************************)
SavedRowsMax == 2

SavedNames == { LoraB, <<"q", "\"">>, <<>> }

\* strengths, in hundredths
SavedStrengths == { 100, -150, 5 }

SavedRows ==
    { RowOf(name, strength, on) : name \in SavedNames, strength \in SavedStrengths,
                                  on \in BOOLEAN }

SavedRowSeqs == UNION { [1..k -> SavedRows] : k \in 0..SavedRowsMax }

OthersSave == UNCHANGED <<plVars, mlVars, srVars, flVars, enNode, hostCall>>

InitSave ==
    /\ \E rows \in SavedRowSeqs :
         reload = [phase |-> "drawn", rows |-> JArr(rows), text |-> <<"[", "]">>,
                   back |-> JArr(<<>>)]
    /\ NoPL /\ NoML /\ NoSR /\ NoFL /\ NoEN /\ NoCall

\* syncToWidget(node) with node.loraRows = reload.rows
Save ==
    /\ reload.phase = "drawn"
    /\ reload' = [reload EXCEPT !.phase = "saved",
                                !.text = SyncToWidget(WidgetOf(@), reload.rows).value]
    /\ OthersSave

\* parseLoraData(node) on the saved text
Load ==
    /\ reload.phase = "saved"
    /\ reload' = [reload EXCEPT !.phase = "loaded",
                                !.back = ParseLoraData(WidgetOf(reload.text)).rows]
    /\ OthersSave

SpecSave == InitSave /\ [][Save \/ Load]_vars

(***************************************************************************)
(* Properties                                                              *)
(***************************************************************************)
\* the lora field of the row at index i (0-based) of node n
LoraOfRow(n, i) == GetProp(loraRows[n].a[i + 1], KLora)

\* C1: saving any row sequence with syncToWidget and loading the text back
\* with parseLoraData gives the same row sequence: same length, same order,
\* same field values, the empty sequence included.
RoundTripIdentity == reload.phase = "loaded" => reload.back = reload.rows

\* C1, reached: a full-length sequence with a name that holds a double quote
\* was saved, as a text other than "[]", and loaded back unchanged
RoundTripDone ==
    /\ reload.phase = "loaded"
    /\ Len(reload.rows.a) = SavedRowsMax
    /\ \E k \in 1..Len(reload.rows.a) :
         GetProp(reload.rows.a[k], KLora) = JStr(<<"q", "\"">>)
    /\ reload.text # <<"[", "]">>
    /\ reload.back = reload.rows

\* C2: when a row is added, the triggerDisplays entry at the new row's index
\* is empty, and so is the trigger element rendered for it: no text of a
\* removed or shifted row is reused.  (On a new node an entry at or beyond
\* the number of rows only exists once a row was removed.)
NewRowDisplayEmpty ==
    [][\A n \in PLNodes :
         AddClick(n, MaxRows) =>
           /\ MapGet(triggerDisplays'[n], Len(loraRows[n].a)) = <<>>
           /\ triggerEls'[n][Len(loraRows[n].a) + 1] = <<>>]_vars

\* C3 as stated: a call of fetchTriggerWord(x) that follows another call for
\* x sends no request of its own, even while the first request is still in
\* flight: the requests for x in flight never grow once there is one.
OneRequestPerItem ==
    [][/\ \A r \in BagToSet(plInflight') :
            (\E r0 \in BagToSet(plInflight) : r0.name = r.name)
               => CopiesIn(r, plInflight') <= CopiesIn(r, plInflight)
       /\ \A r \in BagToSet(mlInflight') :
            (\E r0 \in BagToSet(mlInflight) : r0.name = r.name)
               => CopiesIn(r, mlInflight') <= CopiesIn(r, mlInflight)]_vars

\* C3, amended: a response that is successful and holds a trigger word that is
\* not blank puts the trimmed word into triggerCache; while triggerCache holds
\* a non-empty word for x, no step sends a request for x, and a call of
\* fetchTriggerWord(x), for any row or slot, is answered with the cached word.
CachedItemAnswered ==
    /\ [](/\ \A x \in DOMAIN plCache, n \in PLNodes, index \in 0..(MaxRows - 1) :
               plCache[x] # <<>> =>
                 LET w == FetchTriggerWord(World, n, index, x)
                 IN  w.inflight = plInflight /\ MapGet(w.td[n], index) = plCache[x]
          /\ \A x \in DOMAIN mlCache, slot \in 1..MLSlots :
               mlCache[x] # <<>> =>
                 LET w == MLFetchTriggerWord(MLWorld, slot, x)
                 IN  w.inflight = mlInflight /\ MapGet(w.td, slot) = mlCache[x])
    /\ [][/\ \A r \in BagToSet(plInflight') :
               MapGet(plCache, r.name) # <<>>
                  => CopiesIn(r, plInflight') <= CopiesIn(r, plInflight)
          /\ \A r \in BagToSet(mlInflight') :
               MapGet(mlCache, r.name) # <<>>
                  => CopiesIn(r, mlInflight') <= CopiesIn(r, mlInflight)
          /\ \A req \in BagToSet(plInflight) :
               (TriggerResponse(req, "ok") /\ Trim(ServerTrigger(req.name).word) # <<>>)
                  => MapGet(plCache', req.name) = Trim(ServerTrigger(req.name).word)
          /\ \A req \in BagToSet(mlInflight) :
               (MLTriggerResponse(req, "ok") /\ Trim(ServerTrigger(req.name).word) # <<>>)
                  => MapGet(mlCache', req.name) = Trim(ServerTrigger(req.name).word)]_vars

\* C3, reached: two rows of a node hold the same item, its word is cached and
\* shown for both, and no request is in flight
AnsweredFromCache ==
    /\ MapGet(plCache, LoraA) # <<>>
    /\ loraRows[1].t = "array" /\ Len(loraRows[1].a) = 2
    /\ \A i \in 0..1 :
         /\ LoraOfRow(1, i) = JStr(LoraA)
         /\ MapGet(triggerDisplays[1], i) = plCache[LoraA]
    /\ plInflight = EmptyBag

\* C4: in every state, whatever triggerCache holds, fetchTriggerWord called
\* with "" or "None" sends no request and sets the trigger display of its
\* row (PowerLoRA) or slot (MultiLoRA) to the empty string.
EmptyOrNoneNotRequested ==
    \A name \in {<<>>, NoneName} :
      /\ \A n \in PLNodes, index \in 0..(MaxRows - 1) :
           LET w == FetchTriggerWord(World, n, index, name)
           IN  /\ w.inflight = plInflight
               /\ index \in DOMAIN w.td[n] /\ w.td[n][index] = <<>>
      /\ \A slot \in 1..MLSlots :
           LET w == MLFetchTriggerWord(MLWorld, slot, name)
           IN  /\ w.inflight = mlInflight
               /\ slot \in DOMAIN w.td /\ w.td[slot] = <<>>

\* C4, reached: a word is cached, and every combo of the MultiLoRA node went
\* back to "None" with its display emptied and no request in flight
NoneCleared ==
    /\ mlPhase.hooked
    /\ MapGet(mlCache, LoraA) # <<>>
    /\ \A k \in 1..MLSlots :
         mlValue[k] = NoneName /\ k \in DOMAIN mlDisplays /\ mlDisplays[k] = <<>>
    /\ mlInflight = EmptyBag

\* C5: fetchLorasInFolder memoizes no empty listing: loraCache never holds an
\* empty listing for a folder, so that the next call for it sends a request.
EmptyListingNotCached == \A f \in DOMAIN loraCache : loraCache[f] # <<>>

\* C6 as stated: over both kinds, at most one overlay is open.
OneOverlay == Len(dropdowns) + Len(dialogs) <= 1

\* C6, amended: at most one LoRA dropdown and at most one prompt results
\* dialog are open; opening an overlay closes an open one of its own kind.
OneOverlayPerKind == Len(dropdowns) <= 1 /\ Len(dialogs) <= 1

\* C6, reached: a LoRA dropdown and a results dialog are open together
BothKindsOpen == Len(dropdowns) = 1 /\ Len(dialogs) = 1

\* a step of a handler of node n that mutates its rows
Mutation(n) ==
    \/ AddClick(n, MaxRows)
    \/ \E i \in 0..(MaxRows - 1) :
         \/ DeleteClick(n, i)
         \/ ToggleClick(n, i)
         \/ \E text \in StrengthInputs : StrengthChange(n, i, text)
    \/ \E k \in 1..Len(dropdowns) :
         /\ dropdowns[k].n = n
         /\ \/ NoneClick(k)
            \/ \E j \in 1..Len(dropdowns[k].view.items) : ItemClick(k, j)

\* C7: when a handler that mutates the rows of a node returns (add, delete,
\* toggle, strength change, item selection, selecting None), the lora_data
\* text is the JSON encoding of the node's whole row sequence.
PersistedAfterMutation ==
    [][\A n \in PLNodes :
         Mutation(n) => loraData'[n].value = JsonStringify(loraRows'[n])]_vars

\* C7, reached: two rows, one switched off and one with strength 0.5, and
\* the text that encodes them
EditsPersisted ==
    /\ loraRows[1].t = "array" /\ Len(loraRows[1].a) = 2
    /\ \E i \in 1..2 : GetProp(loraRows[1].a[i], KOn) = JBool(FALSE)
    /\ \E i \in 1..2 : GetProp(loraRows[1].a[i], KStrength) = JNum(50)
    /\ loraData[1].value = JsonStringify(loraRows[1])

\* the lora_data widgets that are absent, empty or malformed
BadWidgets ==
    { NoWidget, WidgetOf(<<>>), WidgetOf(<<"[", "{">>), WidgetOf(<<"[", "1", ",", "]">>) }

\* C8: when parseLoraData runs on a lora_data that is absent, empty or
\* malformed, the node's rows become the empty sequence and no exception
\* leaves the function.
LoadNeverRaises ==
    [][\A n \in PLNodes :
         (/\ plPhase[n].config = "fetch" /\ plPhase'[n].config = "done"
          /\ loraData[n] \in BadWidgets)
            => loraRows'[n] = JArr(<<>>) /\ ~threw']_vars

\* C8, reached: a node restored from a malformed text has no rows, and its
\* UI was built
MalformedLoaded ==
    /\ plPhase[1].config = "done"
    /\ loraData[1] = WidgetOf(<<"[", "{">>)
    /\ loraRows[1] = JArr(<<>>)
    /\ Attached(1)
    /\ ~threw

\* max(100 + 36 * rowCount, 120)
SizedHeight(rowCount) ==
    IF 100 + 36 * rowCount > 120 THEN 100 + 36 * rowCount ELSE 120

\* C9: after the UI is created, a row is added or a row is deleted, the
\* node's height is max(100 + 36 * rowCount, 120) for the rows it then has.
HeightAfterChange ==
    [][\A n \in PLNodes :
         (\/ AddClick(n, SizeRows)
          \/ \E i \in 0..(SizeRows - 1) : DeleteClick(n, i)
          \/ \E path \in {"create", "config"} : ObjectInfoDone(n, path, ObjectInfoFailed))
            => nodeHeight'[n] = SizedHeight(Len(loraRows'[n].a))]_vars

\* C9, reached: three rows were added to an empty node, which is 208 high
ThreeRowsSized ==
    /\ loraRows[1].t = "array" /\ Len(loraRows[1].a) = 3
    /\ nodeHeight[1] = 208

\* whether a and b are the same character up to the case of a letter
SameLetter(a, b) ==
    \/ a = b
    \/ \E k \in 1..26 : {a, b} = {UpperChars[k], LowerChars[k]}

\* whether filter is a substring of entry, up to case
ContainsFolded(entry, filter) ==
    \E off \in 0..(Len(entry) - Len(filter)) :
      \A i \in 1..Len(filter) : SameLetter(entry[off + i], filter[i])

\* whether items are the entries of list that contain filter, in the order
\* of list
MatchesInOrder(items, list, filter) ==
    LET hits == {k \in 1..Len(list) : ContainsFolded(list[k], filter)}
    IN  /\ Len(items) = Cardinality(hits)
        /\ \A m \in 1..Len(items) :
             items[m] = list[CHOOSE k \in hits : Cardinality({j \in hits : j <= k}) = m]

\* C10: the candidates a dropdown lists, on opening (filter "") and after
\* every input of a filter text, are the entries of the node's candidate list
\* that contain the text as a case-insensitive substring, in their order in
\* the list; filter "abc" on ["abcd", "xyz", "ABCX"] lists ["abcd", "ABCX"].
FilterListsMatches ==
    [][/\ \A k \in 1..Len(dropdowns), filter \in FilterTexts :
            DropdownInput(k, filter) =>
              /\ MatchesInOrder(dropdowns'[k].view.items, loraList[dropdowns[k].n], filter)
              /\ (loraList[dropdowns[k].n] = ExampleList /\ filter = <<"a", "b", "c">>)
                    => dropdowns'[k].view.items = <<ExampleList[1], ExampleList[3]>>
       /\ \A n \in PLNodes, i \in 0..(FewRows - 1) :
            SelectClick(n, i) =>
              MatchesInOrder(dropdowns'[Len(dropdowns')].view.items, loraList[n], <<>>)]_vars

\* C10, reached: a dropdown over ["abcd", "xyz", "ABCX"] lists "abcd" and
\* "ABCX"
ExampleFiltered ==
    \E k \in 1..Len(dropdowns) :
      /\ loraList[dropdowns[k].n] = ExampleList
      /\ dropdowns[k].view.items = <<ExampleList[1], ExampleList[3]>>

(***************************************************************************)
(* Closing overlays: the page of the overlay scenario, with the Escape key *)
(* pressed at any time an overlay is open.                                 *)
(***************************************************************************)
\* a keydown of Escape on the document: the escHandler of an open prompt
\* dialog removes it.  showLoraDropdown adds no keydown listener (its only
\* document listener is closeHandler, on mousedown), so the dropdowns stay.
KeyDownEscape(dds, dlgs) == [dropdowns |-> dds, dialogs |-> << >>]

EscapeKey ==
    /\ dropdowns # << >> \/ dialogs # << >>
    /\ dropdowns' = KeyDownEscape(dropdowns, dialogs).dropdowns
    /\ dialogs' = KeyDownEscape(dropdowns, dialogs).dialogs
    /\ UNCHANGED <<srNode, srInflight>>
    /\ OthersSR

NextClose ==
    \/ NextOverlay
    \/ EscapeKey

SpecClose == InitOverlay /\ [][NextClose]_vars

(***************************************************************************)
(* Hooks: the host calls the wrapped hooks of a page's node types.         *)
(***************************************************************************)
InitHooks == NoPL /\ NoML /\ NoSR /\ NoFL /\ NoReload /\ NoEN /\ NoCall

NextHooks ==
    \E hook \in Hooks, prev \in BOOLEAN, this \in Receivers, args \in HostArgs :
      HostCalls(hook, prev, this, args)

SpecHooks == InitHooks /\ [][NextHooks]_vars

(***************************************************************************)
(* Configuring: a PowerLoRA node restored from a workflow whose lora_data  *)
(* holds rows, which the user leaves alone while it initialises.           *)
(***************************************************************************)
ConfiguredRows ==
    { << >>,
      << RowOf(LoraA, 100, TRUE) >>,
      << RowOf(LoraC, -150, TRUE), RowOf(LoraC, 5, FALSE) >>,
      << RowOf(LoraB, 50, FALSE), RowOf(NoneName, 100, TRUE), RowOf(<<>>, 100, TRUE),
         RowOf(LoraA, 100, TRUE) >> }

InitConfigure ==
    /\ \E rows \in ConfiguredRows : InitPL(TRUE, WidgetOf(JsonStringify(JArr(rows))))
    /\ NoML /\ NoSR /\ NoFL /\ NoReload /\ NoEN /\ NoCall

NextConfigure ==
    \/ NextLoad(ObjectInfoOutcomes)
    \/ NextLookup

\* an /object_info request of loadLoraList is in flight
LoadPending == \E n \in PLNodes, path \in {"create", "config"} : plPhase[n][path] = "fetch"

\* the timers fire, and every /object_info request ends: weak fairness of
\* ObjectInfoDone, written with LoadPending, the condition under which it
\* is enabled
SpecConfigure ==
    /\ InitConfigure /\ [][NextConfigure]_vars
    /\ WF_vars(\E n \in PLNodes, path \in {"create", "config"} : TimerFires(n, path))
    /\ \/ []<>(~LoadPending)
       \/ []<><<\E n \in PLNodes, path \in {"create", "config"}, out \in ObjectInfoOutcomes :
                  ObjectInfoDone(n, path, out)>>_vars

(***************************************************************************)
(* Racing lookups: a PowerLoRA node on which the user chose the item first *)
(* and then the item second in the dropdown of the row at index, before    *)
(* the lookup of first has ended.  Both requests are in flight; the user   *)
(* then leaves the dropdowns alone.                                        *)
(***************************************************************************)
RaceItems == {LoraA, LoraB, LoraC}

\* the rows of the node and the index of the row the user chose in
RaceRows(second) ==
    { [rows |-> <<RowOf(second, 100, TRUE)>>, index |-> 0],
      [rows |-> <<RowOf(second, 100, TRUE), DefaultRow>>, index |-> 0],
      [rows |-> <<DefaultRow, RowOf(second, 100, TRUE)>>, index |-> 1] }

InitRace ==
    /\ \E first \in RaceItems :
       \E second \in RaceItems \ {first} :
       \E r \in RaceRows(second) :
         /\ loraRows = [n \in PLNodes |-> IF n = 1 THEN JArr(r.rows) ELSE JArr(<<>>)]
         /\ loraData = [n \in PLNodes |->
                          IF n = 1 THEN WidgetOf(JsonStringify(JArr(r.rows)))
                          ELSE WidgetOf(<<"[", "]">>)]
         /\ nodeHeight = [n \in PLNodes |-> IF n = 1 THEN UpdateNodeSize(JArr(r.rows)) ELSE 0]
         /\ triggerEls = [n \in PLNodes |->
                            IF n = 1 THEN [i \in 1..Len(r.rows) |-> <<>>] ELSE <<>>]
         /\ plInflight = SetToBag({[n |-> 1, index |-> r.index, name |-> first],
                                   [n |-> 1, index |-> r.index, name |-> second]})
    /\ plPhase = [n \in PLNodes |->
                    IF n = 1 THEN [create |-> "done", config |-> "none"]
                    ELSE [create |-> "none", config |-> "none"]]
    /\ loraList = [n \in PLNodes |-> IF n = 1 THEN <<LoraA, LoraB, LoraC>> ELSE <<>>]
    /\ triggerDisplays = [n \in PLNodes |-> EmptyMap]
    /\ domOrder = <<1>>
    /\ dropdowns = <<>>
    /\ plCache = EmptyMap
    /\ threw = FALSE
    /\ NoML /\ NoSR /\ NoFL /\ NoReload /\ NoEN /\ NoCall

NextRace ==
    \/ NextFields(MaxRows)
    \/ NextLookup

SpecRace == InitRace /\ [][NextRace]_vars

(***************************************************************************)
(* The enhancer node: created by the user or restored from a workflow      *)
(* that saved a display value, then executed any number of times.          *)
(***************************************************************************)
\* o.enhancedDisplayValue of the workflow the node is restored from
SavedDisplays == {JUndefined, JStr(<<"s">>)}

\* the texts typed into the prompt widget
PromptTexts == { <<>>, <<"p">> }

\* node.size[1] when the node is created
EnHeights == {50, 200}

InitEnhancer ==
    /\ \E restored \in BOOLEAN, saved \in SavedDisplays, h \in EnHeights :
         enNode = [exists |-> TRUE, create |-> "timer",
                   config |-> IF restored THEN "timer" ELSE "none",
                   saved |-> IF restored THEN saved ELSE JUndefined,
                   display |-> [present |-> FALSE, value |-> JUndefined, el |-> FALSE,
                                elValue |-> <<>>],
                   prompt |-> <<>>, height |-> h, dirty |-> FALSE]
    /\ NoPL /\ NoML /\ NoSR /\ NoFL /\ NoReload /\ NoCall

NextEnhancer ==
    \/ EnTimerFires
    \/ EnConfigTimerFires
    \/ \E text \in ExecutedTexts : EnExecuted(text)
    \/ \E text \in PromptTexts : EnType(text)

SpecEnhancer == InitEnhancer /\ [][NextEnhancer]_vars

(***************************************************************************)
(* Unhurried selections: a new PowerLoRA node, or a MultiLoRA node, whose   *)
(* user adds rows and selects items only while no lookup is in flight.     *)
(***************************************************************************)
NextSerial ==
    \/ NextLoad(ObjectInfoOutcomes)
    \/ plInflight = EmptyBag /\ \E n \in PLNodes : AddClick(n, MaxRows)
    \/ plInflight = EmptyBag /\ NextChoose(MaxRows)
    \/ NextLookup
    \/ MLTimerFires
    \/ mlInflight = EmptyBag /\ \E slot \in 1..MLSlots, value \in MLValues : MLSelect(slot, value)
    \/ \E req \in BagToSet(mlInflight), out \in TriggerOutcomes : MLTriggerResponse(req, out)

SpecSerial == Init /\ [][NextSerial]_vars

(***************************************************************************)
(* Two nodes: two new PowerLoRA nodes on one page, with up to FewRows rows  *)
(* each.                                                                   *)
(***************************************************************************)
InitTwo ==
    /\ plPhase = [n \in PLNodes |-> [create |-> "timer", config |-> "none"]]
    /\ loraRows = [n \in PLNodes |-> JArr(<<>>)]
    /\ loraList = [n \in PLNodes |-> <<>>]
    /\ triggerDisplays = [n \in PLNodes |-> EmptyMap]
    /\ loraData = [n \in PLNodes |-> WidgetOf(<<"[", "]">>)]
    /\ \E h \in HostHeights : nodeHeight = [n \in PLNodes |-> h]
    /\ triggerEls = [n \in PLNodes |-> <<>>]
    /\ domOrder = <<>>
    /\ dropdowns = <<>>
    /\ plInflight = EmptyBag
    /\ plCache = EmptyMap
    /\ threw = FALSE
    /\ NoML /\ NoSR /\ NoFL /\ NoReload /\ NoEN /\ NoCall

NextTwo ==
    \/ NextLoad(ObjectInfoOutcomes)
    \/ \E n \in PLNodes : AddClick(n, FewRows)
    \/ NextChoose(FewRows)
    \/ NextLookup

SpecTwo == InitTwo /\ [][NextTwo]_vars

(***************************************************************************)
(* Long catalogs: a PowerLoRA node whose candidate list has about as many  *)
(* entries as the dropdown lists at most.                                  *)
(***************************************************************************)
\* the catalog m1, m2, ..., m<count>
LongList(count) == [k \in 1..count |-> <<"m">> \o NatText(k)]

CapCatalogs ==
    { [set |-> TRUE, list |-> LongList(DropdownCap - 1)],
      [set |-> TRUE, list |-> LongList(DropdownCap)],
      [set |-> TRUE, list |-> LongList(DropdownCap + 1)],
      [set |-> TRUE, list |-> LongList(DropdownCap + 3)] }

CapTexts == { <<>>, <<"M">>, <<"1">>, <<"m", "5">>, <<"x">> }

NextCap ==
    \/ NextLoad(CapCatalogs)
    \/ NextRows(FewRows)
    \/ \E n \in PLNodes, i \in 0..(FewRows - 1) : SelectClick(n, i)
    \/ \E k \in 1..Len(dropdowns), filter \in CapTexts : DropdownInput(k, filter)
    \/ OutsideClick

SpecCap == InitFilter /\ [][NextCap]_vars

\* whether view lists the first 50 of the entries of list that contain
\* filter, and reports how many more there are beyond them (0: no indicator)
CappedView(view, list, filter) ==
    LET hits == {k \in 1..Len(list) : ContainsFolded(list[k], filter)}
        m == Cardinality(hits)
    IN  /\ Len(view.items) = (IF m > 50 THEN 50 ELSE m)
        /\ \A j \in 1..Len(view.items) :
             view.items[j] = list[CHOOSE k \in hits : Cardinality({h \in hits : h <= k}) = j]
        /\ view.hidden = (IF m > 50 THEN m - 50 ELSE 0)

\* C11: on opening and after every input, the dropdown lists the first 50
\* matching candidates at most; when m > 50 candidates match, the indicator
\* reports m - 50 hidden matches, and when m <= 50 there is no indicator.
ListCapped ==
    [][/\ \A k \in 1..Len(dropdowns), filter \in CapTexts :
            DropdownInput(k, filter) =>
              CappedView(dropdowns'[k].view, loraList[dropdowns[k].n], filter)
       /\ \A n \in PLNodes, i \in 0..(FewRows - 1) :
            SelectClick(n, i) =>
              CappedView(dropdowns'[Len(dropdowns')].view, loraList[n], <<>>)]_vars

\* C11, reached: of 53 candidates the dropdown lists 50 and reports 3 more
ThreeHidden ==
    \E k \in 1..Len(dropdowns) :
      /\ Len(loraList[dropdowns[k].n]) = 53
      /\ Len(dropdowns[k].view.items) = 50
      /\ dropdowns[k].view.hidden = 3

\* C12: the first item of every open dropdown is the "None" sentinel, and
\* the sentinel is listed once, whatever the filter text and the candidates.
SentinelFirstOnce ==
    \A k \in 1..Len(dropdowns) :
      LET children == ListChildren(dropdowns[k].view)
      IN  /\ children # << >>
          /\ children[1] = [kind |-> "none", text |-> <<"N", "o", "n", "e">>]
          /\ Cardinality({j \in 1..Len(children) : children[j].kind = "none"}) = 1

\* C12, reached: over the fallback list ["None"] a filter that does not
\* match "None" has been typed, and the sentinel is the only item
SentinelAlone ==
    \E k \in 1..Len(dropdowns) :
      /\ loraList[dropdowns[k].n] = << NoneName >>
      /\ dropdowns[k].view.items = << >>
      /\ Len(ListChildren(dropdowns[k].view)) = 1

\* C13: a click on the search button while the query is empty or only
\* white space sends no request to /boudoir/prompt-search, and shows the
\* "Please enter a search term" outcome with no results, whatever the
\* category filter.
BlankQueryNotSent ==
    [][(SearchClick /\ srNode.query \in { <<>>, <<" ">> })
         => /\ srInflight' = srInflight
            /\ dialogs' # << >>
            /\ dialogs'[Len(dialogs')] =
                 [title |-> "Please enter a search term", prompts |-> << >>]]_vars

\* C13, reached: a white-space query was searched under a category filter
BlankQueryAnswered ==
    /\ srNode.query = <<" ">>
    /\ srNode.filter = CatArt
    /\ srInflight = EmptyBag
    /\ dialogs = << [title |-> "Please enter a search term", prompts |-> << >>] >>

\* C14: a lookup that misses the cache sends one request, and when the
\* request fails or its response is not a success, nothing is raised, no
\* further request is sent, triggerCache stays as it was, and the trigger of
\* the row or slot that still holds the item (of which triggerCache holds
\* nothing) is empty.
FailedLookupEmpty ==
    [][/\ \A req \in BagToSet(plInflight), out \in {"notok", "failed"} :
            (/\ TriggerResponse(req, out)
             /\ LoraOfRow(req.n, req.index) = req.name
             /\ MapGet(plCache, req.name) = << >>)
              => /\ ~threw'
                 /\ plInflight' = plInflight (-) SetToBag({req})
                 /\ plCache' = plCache
                 /\ MapGet(triggerDisplays'[req.n], req.index) = << >>
       /\ \A req \in BagToSet(mlInflight), out \in {"notok", "failed"} :
            (/\ MLTriggerResponse(req, out)
             /\ mlValue[req.slot] = req.name
             /\ MapGet(mlCache, req.name) = << >>)
              => /\ mlInflight' = mlInflight (-) SetToBag({req})
                 /\ mlCache' = mlCache
                 /\ MapGet(mlDisplays', req.slot) = << >>]_vars

\* C15: no failure opens a modal overlay: when a search request fails (the
\* transport fails, or the response is an error page and no JSON) no dialog
\* is opened, and when the /object_info request fails no dialog is opened
\* and the candidate list is the default ["None"].
FailuresOpenNoDialog ==
    [][/\ \A req \in BagToSet(srInflight), out \in SearchOutcomes :
            (SearchResponse(req, out) /\ out.kind = "throws") => dialogs' = dialogs
       /\ \A n \in PLNodes, path \in {"create", "config"} :
            ObjectInfoDone(n, path, ObjectInfoFailed)
              => dialogs' = dialogs /\ loraList'[n] = << NoneName >>]_vars

\* whether after is before without its element at index i (0-based), the
\* other elements being the same, in the same order
RemovedAt(before, after, i) ==
    /\ Len(after) = Len(before) - 1
    /\ \A j \in 1..Len(after) : after[j] = (IF j <= i THEN before[j] ELSE before[j + 1])

\* the trigger triggerCache holds for the item of row, or << >>
CachedTriggerOf(row) ==
    LET lora == GetProp(row, KLora)
    IN  IF lora.t = "string" /\ lora.s # << >> /\ lora.s # <<"N", "o", "n", "e">>
        THEN MapGet(plCache, lora.s)
        ELSE << >>

\* C16, as stated: deleting row i gives the row sequence without its element
\* i, drops the trigger display entry of index i, and leaves the entries of
\* the other indices as they were.
DeleteDropsEntry ==
    [][\A n \in PLNodes, i \in 0..(MaxRows - 1) :
         DeleteClick(n, i)
           => /\ RemovedAt(loraRows[n].a, loraRows'[n].a, i)
              /\ MapGet(triggerDisplays'[n], i) = << >>
              /\ \A j \in 0..MaxRows :
                   j # i => MapGet(triggerDisplays'[n], j) = MapGet(triggerDisplays[n], j)]_vars

\* C16, amended: deleting row i gives the row sequence without its element
\* i; the display entry of every index whose new row has an item with a
\* trigger in triggerCache is that trigger; of the other indices, index i has
\* no entry, and the entries of the rest are as they were (not moved).
DeleteRefreshesEntries ==
    [][\A n \in PLNodes, i \in 0..(MaxRows - 1) :
         DeleteClick(n, i)
           => /\ RemovedAt(loraRows[n].a, loraRows'[n].a, i)
              /\ \A j \in 0..MaxRows :
                   LET cached == IF j < Len(loraRows'[n].a)
                                 THEN CachedTriggerOf(loraRows'[n].a[j + 1])
                                 ELSE << >>
                   IN  MapGet(triggerDisplays'[n], j) =
                         (IF cached # << >> THEN cached
                          ELSE IF j = i THEN << >>
                          ELSE MapGet(triggerDisplays[n], j))]_vars

\* C16, reached: the first of two rows was deleted; the row that moved to
\* index 0 shows its cached trigger there, and the entry of index 1 is still
\* the one it had
DeletedAboveCached ==
    /\ Len(loraRows[1].a) = 1
    /\ LoraOfRow(1, 0) = JStr(LoraA)
    /\ MapGet(plCache, LoraA) = <<"t", "a">>
    /\ MapGet(triggerDisplays[1], 0) = <<"t", "a">>
    /\ MapGet(triggerDisplays[1], 1) = <<"t", "a">>

\* C17: a click on "+ Add LoRA" appends one row with lora "", strength 1.0
\* and on true at the end of the row sequence and leaves the rows before it
\* as they were, whatever items they hold.
AddAppendsDefault ==
    [][\A n \in PLNodes :
         AddClick(n, SizeRows)
           => LET before == loraRows[n].a
                  after == loraRows'[n].a
              IN  /\ Len(after) = Len(before) + 1
                  /\ \A j \in 1..Len(before) : after[j] = before[j]
                  /\ GetProp(after[Len(after)], KLora) = JStr(<< >>)
                  /\ GetProp(after[Len(after)], KStrength) = JNum(100)
                  /\ GetProp(after[Len(after)], KOn) = JBool(TRUE)
                  /\ Len(after[Len(after)].m) = 3]_vars

\* C17, reached: a default row was added below two rows that hold the same
\* item
AddedBelowTwins ==
    /\ Len(loraRows[1].a) = 3
    /\ LoraOfRow(1, 0) = JStr(NoneName)
    /\ LoraOfRow(1, 1) = JStr(NoneName)
    /\ LoraOfRow(1, 2) = JStr(<< >>)

\* C18: a click on a candidate of an open dropdown (opened on a row that is
\* still one of the node's rows) does, in this one step
\* and in this order: sets the row's lora to the candidate, writes the rows
\* (with the candidate in them) to lora_data, starts the trigger lookup of
\* the candidate for the row's index (a cache hit shows the trigger at once,
\* a miss sends a request), and removes the dropdown.
ItemClickSequence ==
    [][\A k \in 1..Len(dropdowns), j \in 1..50 :
         (ItemClick(k, j) /\ dropdowns[k].rowLive)
           => LET d == dropdowns[k]
                  name == d.view.items[j]
              IN  /\ GetProp(loraRows'[d.n].a[d.index + 1], KLora) = JStr(name)
                  /\ loraData[d.n].present
                       => loraData'[d.n].value = JsonStringify(loraRows'[d.n])
                  /\ IF name = <<"N", "o", "n", "e">>
                     THEN /\ MapGet(triggerDisplays'[d.n], d.index) = << >>
                          /\ plInflight' = plInflight
                     ELSE IF MapGet(plCache, name) # << >>
                     THEN /\ MapGet(triggerDisplays'[d.n], d.index) = plCache[name]
                          /\ plInflight' = plInflight
                     ELSE plInflight' = plInflight (+)
                            SetToBag({[n |-> d.n, index |-> d.index, name |-> name]})
                  /\ Len(dropdowns') = Len(dropdowns) - 1
                  /\ \A m \in 1..Len(dropdowns') : dropdowns'[m] # d]_vars

\* C18, reached: a candidate was chosen for the second row; the row holds
\* it, lora_data encodes it, its lookup is in flight and no dropdown is open
CandidateChosen ==
    /\ Len(loraRows[1].a) = 2
    /\ LoraOfRow(1, 1) = JStr(LoraB)
    /\ loraData[1].value = JsonStringify(loraRows[1])
    /\ [n |-> 1, index |-> 1, name |-> LoraB] \in BagToSet(plInflight)
    /\ dropdowns = << >>

\* C19: an open overlay, LoRA dropdown or prompt dialog, is closed by a
\* click outside its bounds and also by the Escape key.
OverlayClosedBothWays ==
    /\ dropdowns # << >>
         => /\ MouseDownOutside(dropdowns) = << >>
            /\ KeyDownEscape(dropdowns, dialogs).dropdowns = << >>
    /\ dialogs # << >>
         => KeyDownEscape(dropdowns, dialogs).dialogs = << >>

\* C20: a search with a query whose response says no success or lists no
\* prompt shows "No prompts found" with no results, a request that throws
\* shows another title, and every search with a query sends a request of its
\* own, whatever was searched before.
EmptySearchReported ==
    [][/\ \A req \in BagToSet(srInflight), out \in SearchOutcomes :
            SearchResponse(req, out)
              => LET shown == dialogs'[Len(dialogs')]
                 IN  IF out.kind = "json" /\ (~out.success \/ out.prompts = << >>)
                     THEN shown = [title |-> "No prompts found", prompts |-> << >>]
                     ELSE shown.title # "No prompts found"
       /\ (SearchClick /\ srNode.query = <<"q">>)
            => srInflight' = srInflight (+)
                 SetToBag({[q |-> <<"q">>, category |-> srNode.filter]})]_vars

\* C20, reached: "No prompts found" is shown for a query of which another
\* request is in flight
EmptySearchRepeated ==
    /\ dialogs = << [title |-> "No prompts found", prompts |-> << >>] >>
    /\ srNode.query = <<"q">>
    /\ [q |-> <<"q">>, category |-> srNode.filter] \in BagToSet(srInflight)

PreviousCalledFirst ==
    hostCall.hook # "none" =>
      LET previous == {k \in 1..Len(hostCall.trace) : hostCall.trace[k].who = "previous"}
      IN  IF hostCall.prev
          THEN /\ previous = {1}
               /\ hostCall.trace[1].this = hostCall.this
               /\ hostCall.trace[1].args = hostCall.args
          ELSE previous = {}

\* whether a lookup of the item of every row of rows that has one (not ""
\* and not "None") has been started on node n: a request for the row's index
\* is in flight in inflight, or the cached trigger is displayed
LookupsStarted(n, rows, inflight, displays) ==
    \A i \in 0..(Len(rows) - 1) :
      LET lora == GetProp(rows[i + 1], KLora)
      IN  (lora.t = "string" /\ lora.s # << >> /\ lora.s # <<"N", "o", "n", "e">>)
            => \/ [n |-> n, index |-> i, name |-> lora.s] \in BagToSet(inflight)
               \/ /\ MapGet(plCache, lora.s) # << >>
                  /\ MapGet(displays, i) = plCache[lora.s]

\* C23: after a PowerLoRA node is configured with lora_data holding the JSON
\* array R, the configure path ends (its timer fires and its /object_info
\* request ends, well or not); when it ends, a lookup is started for every
\* row of R with an item; and from then on the rows are R, each rendered.
RestoredEventually ==
    /\ <>(plPhase[1].config = "done")
    /\ [](plPhase[1].config = "done"
            => /\ JsonStringify(loraRows[1]) = loraData[1].value
               /\ JsonParse(loraData[1].value).v = loraRows[1]
               /\ Len(triggerEls[1]) = Len(loraRows[1].a))
    /\ [][\A out \in ObjectInfoOutcomes :
            ObjectInfoDone(1, "config", out)
              => LookupsStarted(1, loraRows'[1].a, plInflight', triggerDisplays'[1])]_vars

\* C23, reached: four rows were restored, and the lookups of the two that
\* have an item are in flight
FourRowsRestored ==
    /\ plPhase[1].config = "done"
    /\ Len(loraRows[1].a) = 4
    /\ Len(triggerEls[1]) = 4
    /\ LoraOfRow(1, 3) = JStr(LoraA)
    /\ [n |-> 1, index |-> 0, name |-> LoraB] \in BagToSet(plInflight)
    /\ [n |-> 1, index |-> 3, name |-> LoraA] \in BagToSet(plInflight)

\* what a response to a lookup carries: the trimmed trigger word of a
\* success, and no trigger otherwise
Carried(req, out) ==
    LET data == ServerTrigger(req.name)
    IN  IF out = "ok" /\ data.has THEN Trim(data.word) ELSE << >>

\* C24: when two lookups for the same row are in flight, the response that
\* arrives first cancels nothing (the other request stays in flight), and
\* after the response that arrives last the row's trigger display is what
\* that response carries, whichever selection it belongs to.
LastResponseWins ==
    [][\A req \in BagToSet(plInflight), out \in TriggerOutcomes :
          TriggerResponse(req, out)
            => /\ plInflight' = plInflight (-) SetToBag({req})
               /\ plInflight' = EmptyBag
                    => triggerEls'[req.n][req.index + 1] = Carried(req, out)]_vars

\* C25: a change of a row's strength field is never rejected: the row's
\* strength becomes the entered number when the entered text is numeric and
\* 1.0 when it is not, and it is a finite number.
StrengthStored ==
    [][\A n \in PLNodes, i \in 0..(MaxRows - 1), text \in StrengthInputs :
          StrengthChange(n, i, text)
            => /\ GetProp(loraRows'[n].a[i + 1], KStrength) =
                    IF ParseFloat(text).t = "number" THEN ParseFloat(text) ELSE JNum(100)
               /\ GetProp(loraRows'[n].a[i + 1], KStrength).t = "number"]_vars

\* C26: onExecuted on an enhancer node only copies the result in: when the
\* message carries text and the enhanced_display widget exists, the widget's
\* value (and the text of its input element) becomes that text, the first
\* element when the text is a list (undefined when the list is empty), a
\* redraw of the canvas is requested, and nothing else
\* of the node changes; when the message has no text or the widget does not
\* exist, nothing changes.
ExecutedCopiesIn ==
    [][\A text \in ExecutedTexts :
          EnExecuted(text)
            => IF Truthy(text) /\ enNode.display.present
               THEN LET shown == IF text.t # "array" THEN text
                                 ELSE IF text.a = << >> THEN JUndefined
                                 ELSE text.a[1]
                    IN  /\ enNode'.display.value = shown
                        /\ enNode.display.el => enNode'.display.elValue = ElText(shown)
                        /\ [enNode' EXCEPT !.display.value = JUndefined,
                                            !.display.elValue = << >>, !.dirty = TRUE]
                             = [enNode EXCEPT !.display.value = JUndefined,
                                              !.display.elValue = << >>, !.dirty = TRUE]
               ELSE enNode' = enNode]_vars

\* C26, reached: a list of texts was executed on a node whose prompt widget
\* holds a text, and the display shows the first of them
ListExecuted ==
    /\ enNode.display.present /\ enNode.display.el
    /\ enNode.display.value = JStr(<<"u">>)
    /\ enNode.display.elValue = <<"u">>
    /\ enNode.prompt = <<"p">>
    /\ enNode.dirty

\* the rows a lora_data widget holds (none when its text is no JSON array)
RowsHeld(widget) ==
    LET r == JsonParse(widget.value)
    IN  IF widget.present /\ r.ok /\ r.v.t = "array" THEN r.v.a ELSE << >>

\* C27: persisted rows are not lost during restore: while the configure
\* path of a restored PowerLoRA node has not parsed lora_data, no step (a
\* timer, the end of an /object_info request, a click on Add or on a row's
\* delete button, a lookup response) leaves lora_data with a row list that
\* omits one of the rows it held.
PersistedRowsKept ==
    [][plPhase[1].config \in {"timer", "fetch"}
         => \A k \in 1..Len(RowsHeld(loraData[1])) :
               \E j \in 1..Len(RowsHeld(loraData'[1])) :
                  RowsHeld(loraData'[1])[j] = RowsHeld(loraData[1])[k]]_vars

\* the trigger word of an item, as a row or slot shows it: empty for "",
\* for "None" and for an item without one
TriggerOf(name) ==
    IF name = << >> \/ name = <<"N", "o", "n", "e">> \/ ~ServerTrigger(name).has THEN << >>
    ELSE Trim(ServerTrigger(name).word)

\* C28: with lookups that do not overlap, a row or slot shows the trigger
\* word of the item selected last: a selection answered at once (a cache
\* hit, or "None") shows that item's trigger word, and when the lookup of
\* the selected item ends, the display is the item's trigger word after a
\* success and empty after a failure (of an item of which triggerCache
\* holds nothing); the trigger of the item selected before does not stay.
SelectedTriggerShown ==
    [][/\ \A req \in BagToSet(mlInflight), out \in TriggerOutcomes :
            (/\ MLTriggerResponse(req, out)
             /\ mlValue[req.slot] = req.name
             /\ out # "ok" => MapGet(mlCache, req.name) = << >>)
              => MapGet(mlDisplays', req.slot) =
                   IF out = "ok" THEN TriggerOf(req.name) ELSE << >>
       /\ \A slot \in 1..MLSlots, value \in MLValues :
            (MLSelect(slot, value) /\ mlPhase.hooked /\ mlInflight' = mlInflight)
              => MapGet(mlDisplays', slot) = TriggerOf(value)
       /\ \A req \in BagToSet(plInflight), out \in TriggerOutcomes :
            (/\ TriggerResponse(req, out)
             /\ req.index < Len(triggerEls[req.n])
             /\ LoraOfRow(req.n, req.index) = JStr(req.name)
             /\ out # "ok" => MapGet(plCache, req.name) = << >>)
              => triggerEls'[req.n][req.index + 1] =
                   IF out = "ok" THEN TriggerOf(req.name) ELSE << >>
       /\ \A k \in 1..Len(dropdowns), j \in 1..DropdownCap :
            (/\ ItemClick(k, j)
             /\ dropdowns[k].rowLive
             /\ plInflight' = plInflight)
              => triggerEls'[dropdowns[k].n][dropdowns[k].index + 1] =
                   TriggerOf(dropdowns[k].view.items[j])]_vars

\* C29: the trigger badges of a PowerLoRA node are its own: the end of a
\* lookup for a row of one node, and a click on "None" in a dropdown of one
\* node, leave the trigger displays and the trigger elements of every other
\* node as they were.
BadgesIsolated ==
    [][/\ \A req \in BagToSet(plInflight), out \in TriggerOutcomes :
            TriggerResponse(req, out)
              => \A m \in PLNodes \ {req.n} :
                    /\ triggerDisplays'[m] = triggerDisplays[m]
                    /\ triggerEls'[m] = triggerEls[m]
       /\ \A k \in 1..Len(dropdowns) :
            NoneClick(k)
              => \A m \in PLNodes \ {dropdowns[k].n} :
                    /\ triggerDisplays'[m] = triggerDisplays[m]
                    /\ triggerEls'[m] = triggerEls[m]]_vars

\* C30: on a folder-loader node, once every folder lookup has completed,
\* the options of the lora combo are the listing of the folder that is
\* selected (as loraCache holds it), and ["None"] when no folder is
\* selected, when it is "(no subfolders)" or when its listing is empty,
\* whatever the order of the responses.
CurrentFolderListed ==
    (flNode.exists /\ flInflight = EmptyBag)
      => /\ flNode.folder \in {"", NoSubfolders} => flNode.options = <<NoneName>>
         /\ flNode.folder \in DOMAIN loraCache
              => flNode.options = IF loraCache[flNode.folder] = << >> THEN <<NoneName>>
                                  ELSE loraCache[flNode.folder]

\* the value of the lora combo is one of its options
ValueListed(node) == \E k \in 1..Len(node.options) : node.options[k] = node.value

\* C31: on a folder-loader node, whenever updateLoraDropdown has completed
\* (at once on a cache hit or without a folder, or with the response to its
\* request) and whenever the configure handler has completed, the value of
\* the lora combo is one of its options.
LoraValueAmongOptions ==
    [][/\ \A folder \in Folders \cup {NoSubfolders} :
            (FolderCallback(folder) /\ flInflight' = flInflight) => ValueListed(flNode')
       /\ \A req \in BagToSet(flInflight), out \in FolderOutcomes :
            FolderResponse(req, out) => ValueListed(flNode')
       /\ \A folder \in Folders \cup {NoSubfolders}, lora \in SavedLoras :
            (FolderConfigure(folder, lora) /\ ~flNode'.restore.pending)
              => ValueListed(flNode')
       /\ \A out \in FolderOutcomes :
            FolderConfigureDone(out) => ValueListed(flNode')]_vars

\* C32: after parseLoraData on any persisted text that is well-formed JSON,
\* an array or not, the node's rows are a sequence and createUI, which
\* renders them, completes without an exception.
RowStoreSequence ==
    [][\A n \in PLNodes :
         (plPhase[n].config = "fetch" /\ plPhase'[n].config = "done")
           => loraRows'[n].t = "array" /\ ~threw']_vars

====
